---- MODULE Spec2Model ----
(***************************************************************************)
(* The stdio JSON-RPC engine of linkedin-mcp-runner: the readline 'line'    *)
(* listener, handleRequest (envelope check, method dispatch, the ten tool   *)
(* handlers up to and after their axios.post), sendResponse, and the        *)
(* process signals.                                                         *)
(*                                                                          *)
(* A JavaScript value is a record with a tag t.  A missing object member    *)
(* is Undefined.  An output line is what JSON.stringify leaves of the       *)
(* response object: the members whose value is not undefined.               *)
(*                                                                          *)
(* Beside the state of the process (the credential, the suspended handlers  *)
(* in pending, phase, stdin) the variables keep its history: the lines      *)
(* read, the branch each took (trace), the lines written (out), the HTTP    *)
(* requests issued (calls), the SIGTERM signals received and what was in    *)
(* flight at each (signals), and how each backend call ended and whether    *)
(* the input was open then (settled).                                       *)
(***************************************************************************)
EXTENDS Integers, Sequences, FiniteSets, TLC

VARIABLES apiKey, lines, trace, out, calls, pending, phase, stdin, signals, settled

vars == <<apiKey, lines, trace, out, calls, pending, phase, stdin, signals, settled>>

(***************************************************************************)
(* Bounds                                                                   *)
(***************************************************************************)
\* number of input lines the listener receives in one run
MaxLines == 2

\* number of SIGTERM signals the process receives in one run
MaxSigterm == 2

(***************************************************************************)
(* JavaScript values                                                        *)
(***************************************************************************)
Undefined == [t |-> "undefined"]

Null == [t |-> "null"]

Num(n) == [t |-> "number", int |-> n, half |-> FALSE]

\* the number n + 0.5
NumHalf(n) == [t |-> "number", int |-> n, half |-> TRUE]

Str(s) == [t |-> "string", val |-> s]

Bool(b) == [t |-> "boolean", val |-> b]

Arr(items) == [t |-> "array", items |-> items]

EmptyObject == [t |-> "object"]

\* typeof v: null and arrays are 'object'
typeof(v) == IF v.t \in {"null", "array", "object"} THEN "object" ELSE v.t

\* ToBoolean(v), as used by !v, v || d and v && e
Truthy(v) ==
  CASE v.t \in {"undefined", "null"} -> FALSE
    [] v.t = "number" -> ~(v.int = 0 /\ ~v.half)
    [] v.t = "string" -> v.val # ""
    [] v.t = "boolean" -> v.val
    [] OTHER -> TRUE

\* v?.f : undefined for null and undefined, for primitives and arrays (which
\* have none of the members read here), and for an object without member f
Get(v, f) == IF v.t = "object" /\ f \in DOMAIN v THEN v[f] ELSE Undefined

\* v ?? d
NullishOr(v, d) == IF v.t \in {"undefined", "null"} THEN d ELSE v

\* v ?? d written where v || d stands
Or_nullish(v, d) == IF v.t \in {"undefined", "null"} THEN d ELSE v

\* v || d
Or(v, d) == IF Truthy(v) THEN v ELSE d

\* strings of this model that consist of white space only
WhitespaceOnly == {"", " ", "  "}

\* s.trim() === '' ; no other string of the model starts or ends with a blank
TrimIsEmpty(s) == s \in WhitespaceOnly

(***************************************************************************)
(* Text.  A string built by a template literal is the sequence of its       *)
(* fragments.                                                               *)
(***************************************************************************)
\* `${v}` for the values a template of handleRequest can receive
Template(v) ==
  CASE v.t = "string" -> v.val
    [] v.t = "undefined" -> "undefined"
    [] v.t = "null" -> "null"
    [] v.t = "number" -> IF v.half THEN ToString(v.int) \o ".5" ELSE ToString(v.int)
    [] v.t = "array" -> "<array>"
    [] OTHER -> "[object Object]"

\* the characters of the date strings of the model; any other string is
\* rendered as one symbol that is no digit, sign or separator
Chars(s) ==
  CASE s = "2025-12-31T10:00:00Z" ->
         <<"2","0","2","5","-","1","2","-","3","1","T","1","0",":","0","0",":","0","0","Z">>
    [] s = "2020-01-01T00:00:00.5+02:00" ->
         <<"2","0","2","0","-","0","1","-","0","1","T","0","0",":","0","0",":","0","0",
           ".","5","+","0","2",":","0","0">>
    [] s = "2099-01-01T00:00Z" ->
         <<"2","0","9","9","-","0","1","-","0","1","T","0","0",":","0","0","Z">>
    [] s = "2025-12-31T10:00:00" ->
         <<"2","0","2","5","-","1","2","-","3","1","T","1","0",":","0","0",":","0","0">>
    [] s = "2025-12-31T10:00:00.Z" ->
         <<"2","0","2","5","-","1","2","-","3","1","T","1","0",":","0","0",":","0","0",".","Z">>
    [] s = "1999-12-31T23:59:59-05:30" ->
         <<"1","9","9","9","-","1","2","-","3","1","T","2","3",":","5","9",":","5","9",
           "-","0","5",":","3","0">>
    [] s = "2025-12-31T10:00:00+0530" ->
         <<"2","0","2","5","-","1","2","-","3","1","T","1","0",":","0","0",":","0","0",
           "+","0","5","3","0">>
    [] OTHER -> <<s>>

Digit == {"0", "1", "2", "3", "4", "5", "6", "7", "8", "9"}

\* ^\d{4}-\d{2}-\d{2}T\d{2}:\d{2}:\d{2}  : the 19 leading characters
DateTimeShape ==
  <<"d","d","d","d","-","d","d","-","d","d","T","d","d",":","d","d",":","d","d">>

\* (?:Z|[+-]\d{2}:\d{2})$
OffsetMatch(z) ==
  \/ z = <<"Z">>
  \/ /\ Len(z) = 6
     /\ z[1] \in {"+", "-"}
     /\ z[2] \in Digit /\ z[3] \in Digit
     /\ z[4] = ":"
     /\ z[5] \in Digit /\ z[6] \in Digit

\* (?:\.\d+)?  matching exactly the characters f
FractionMatch(f) ==
  \/ f = <<>>
  \/ /\ Len(f) >= 2
     /\ f[1] = "."
     /\ \A i \in 2..Len(f) : f[i] \in Digit

\* the pattern with its seconds made optional: (?::\d{2})? in place of :\d{2}
IsoDateTest_secondsOptional(s) ==
  LET cs == Chars(s)
      n == Len(cs)
  IN /\ n >= 17
     /\ \A i \in 1..16 :
          IF DateTimeShape[i] = "d" THEN cs[i] \in Digit ELSE cs[i] = DateTimeShape[i]
     /\ \E j \in {16, 19} :
          /\ j <= n
          /\ j = 19 => (cs[17] = ":" /\ cs[18] \in Digit /\ cs[19] \in Digit)
          /\ \E k \in j..n :
               /\ FractionMatch(SubSeq(cs, j + 1, k))
               /\ OffsetMatch(SubSeq(cs, k + 1, n))

\* /^\d{4}-\d{2}-\d{2}T\d{2}:\d{2}:\d{2}(?:\.\d+)?(?:Z|[+-]\d{2}:\d{2})$/.test(s)
IsoDateTest(s) ==
  LET cs == Chars(s)
      n == Len(cs)
  IN /\ n >= 20
     /\ \A i \in 1..19 :
          IF DateTimeShape[i] = "d" THEN cs[i] \in Digit ELSE cs[i] = DateTimeShape[i]
     /\ \E k \in 19..n :
          /\ FractionMatch(SubSeq(cs, 20, k))
          /\ OffsetMatch(SubSeq(cs, k + 1, n))

(***************************************************************************)
(* Responses                                                                *)
(***************************************************************************)
\* { jsonrpc: "2.0", error: { code, message }, id }
ErrorResponse(code, message, id) ==
  [jsonrpc |-> Str("2.0"), id |-> id, result |-> Undefined,
   error |-> [t |-> "object", code |-> code, message |-> message]]

\* { jsonrpc: "2.0", id, result }
ResultResponse(id, result) ==
  [jsonrpc |-> Str("2.0"), id |-> id, result |-> result, error |-> Undefined]

\* { content: [ {type: "text", text}, ... ], isError }, each text a template
\* literal: json is the JSON type of the text member
ToolResult(texts, isError) ==
  [t |-> "object",
   content |-> [i \in DOMAIN texts |-> [type |-> "text", text |-> texts[i], json |-> "string"]],
   isError |-> isError]

\* { content: [ {type: "text", text: value} ], isError }: the member holds the
\* value as it is, and JSON.stringify writes it with the type it has; text
\* holds its characters when it is a string
ValueResult(value, isError) ==
  [t |-> "object",
   content |-> <<[type |-> "text",
                  text |-> IF value.t = "string" THEN <<value.val>> ELSE <<>>,
                  json |-> value.t]>>,
   isError |-> isError]

\* JSON.stringify(response): a member whose value is undefined is left out
JSONstringify(response) ==
  [members |-> {m \in {"jsonrpc", "id", "result", "error"} : response[m] # Undefined},
   jsonrpc |-> response.jsonrpc,
   id |-> response.id, result |-> response.result, error |-> response.error]

\* the line feeds in the text JSON.stringify(response, null, space): none
\* without space, a line feed in a string being written as the escape \n; with
\* space, one after the opening brace and one after each member at the least
LineFeeds(response, space) ==
  IF space = 0
    THEN 0
    ELSE 1 + Cardinality({m \in {"jsonrpc", "id", "result", "error"} :
                           response[m] # Undefined})

\* console.log(text), in the handler of input line src: one write to stdout of
\* the text and the line feed that ends it
consoleLog(src, text, feeds) == [src |-> src, line |-> text, feeds |-> feeds + 1]

\* sendResponse with the indentation that the handlers give to the payloads
\* they log: JSON.stringify(response, null, 2)
sendResponse_indented(src, response) ==
  consoleLog(src, JSONstringify(response), LineFeeds(response, 2))

\* sendResponse, for the handler of input line src: the line written to stdout
sendResponse(src, response) ==
  consoleLog(src, JSONstringify(response), LineFeeds(response, 0))

(***************************************************************************)
(* Backend endpoints                                                        *)
(***************************************************************************)
backendApiUrl == "https://ligo.ertiqah.com/api/mcp/publish-linkedin-post"

backendScheduleApiUrl == "https://ligo.ertiqah.com/api/mcp/schedule-linkedin-post"

backendTwitterApiUrl == "https://ligo.ertiqah.com/api/mcp/publish-twitter-post"

backendAnalyzeChatApiUrl == "https://ligo.ertiqah.com/api/mcp/analyze-linkedin-chat"

backendGeneratePostApiUrl == "https://ligo.ertiqah.com/api/mcp/generate-linkedin-post"

backendLinkedinPostsApiUrl == "https://ligo.ertiqah.com/api/mcp/linkedin/posts"

backendLinkedinProfileApiUrl == "https://ligo.ertiqah.com/api/mcp/linkedin/profile"

backendLinkedinSetUrlApiUrl == "https://ligo.ertiqah.com/api/mcp/linkedin/set-url"

backendLinkedinRefreshProfileApiUrl == "https://ligo.ertiqah.com/api/mcp/linkedin/refresh-profile"

backendLinkedinRefreshPostsApiUrl == "https://ligo.ertiqah.com/api/mcp/linkedin/refresh-posts"

(***************************************************************************)
(* handleRequest up to its first await.  The outcome of that synchronous    *)
(* part is the branch taken, the responses sent and the HTTP request        *)
(* issued (with the variables the suspended handler keeps).                 *)
(***************************************************************************)
\* a path that ends in sendResponse(...) and return
Done(branch, response) == [branch |-> branch, sent |-> <<response>>, post |-> <<>>]

\* a path that returns without sendResponse
Silent(branch) == [branch |-> branch, sent |-> <<>>, post |-> <<>>]

\* a path that issues its HTTP request a second time
Await_twice(tool, url, key, payload, id) ==
  [branch |-> tool, sent |-> <<>>,
   post |-> <<[tool |-> tool, url |-> url, authorization |-> <<"Bearer ", key.val>>,
               payload |-> payload, id |-> id],
              [tool |-> tool, url |-> url, authorization |-> <<"Bearer ", key.val>>,
               payload |-> payload, id |-> id]>>]

\* a path that reaches await axios.post(url, payload, { headers, timeout })
Await(tool, url, key, payload, id) ==
  [branch |-> tool, sent |-> <<>>,
   post |-> <<[tool |-> tool, url |-> url, authorization |-> <<"Bearer ", key.val>>,
               payload |-> payload, id |-> id]>>]

\* the missing credential reported with the code of invalid arguments
NoApiKey_asInvalidArguments(tool, id) ==
  Done(tool, ErrorResponse(-32602, <<"Server Configuration Error: API Key not set.">>, id))

\* if (!apiKey) { sendResponse(-32001); return; }
NoApiKey(tool, id) ==
  Done(tool, ErrorResponse(-32001, <<"Server Configuration Error: API Key not set.">>, id))

\* sendResponse(-32602 "Invalid arguments: ..."); return;
InvalidArguments(tool, detail, id) ==
  Done(tool, ErrorResponse(-32602, <<"Invalid arguments: ", detail>>, id))

\* the test without its trim(): a blank string counts as a value
NotNonEmptyString_untrimmed(v) == typeof(v) # "string" \/ v.val = ""

\* typeof v !== 'string' || v.trim() === ''
NotNonEmptyString(v) == typeof(v) # "string" \/ TrimIsEmpty(v.val)

\* media && (!Array.isArray(media) || media.some(item => !item || typeof item
\*   !== 'object' || typeof item.file_url !== 'string' || typeof item.filename !== 'string'))
BadMedia(media) ==
  /\ Truthy(media)
  /\ \/ media.t # "array"
     \/ \E i \in DOMAIN media.items :
          LET item == media.items[i]
          IN \/ ~Truthy(item)
             \/ typeof(item) # "object"
             \/ typeof(Get(item, "file_url")) # "string"
             \/ typeof(Get(item, "filename")) # "string"

MediaDetail == "'media' must be an array of objects, each with 'file_url' and 'filename' strings."

publish_linkedin_post(args, id, key) ==
  LET tool == "publish_linkedin_post"
      postText == Get(args, "post_text")
      media == Get(args, "media")
  IN IF ~Truthy(key) THEN NoApiKey(tool, id)
     ELSE IF NotNonEmptyString(postText)
            THEN InvalidArguments(tool, "'post_text' (string) required.", id)
     ELSE IF BadMedia(media) THEN InvalidArguments(tool, MediaDetail, id)
     ELSE Await(tool, backendApiUrl, key,
                [post_text |-> postText, media |-> Or(media, Arr(<<>>))], id)

\* schedule_linkedin_post with its credential check after the validation of
\* its arguments
schedule_linkedin_post_argumentsFirst(args, id, key) ==
  LET tool == "schedule_linkedin_post"
      postText == Get(args, "post_text")
      scheduledDate == Get(args, "scheduled_date")
      media == Get(args, "media")
  IN IF NotNonEmptyString(postText)
            THEN InvalidArguments(tool, "'post_text' (string) required.", id)
     ELSE IF NotNonEmptyString(scheduledDate)
            THEN InvalidArguments(tool, "'scheduled_date' (ISO 8601 string) required.", id)
     ELSE IF ~IsoDateTest(scheduledDate.val)
            THEN InvalidArguments(tool,
                   "'scheduled_date' must be a valid ISO 8601 string (e.g., 2025-12-31T10:00:00Z).", id)
     ELSE IF BadMedia(media) THEN InvalidArguments(tool, MediaDetail, id)
     ELSE IF ~Truthy(key) THEN NoApiKey(tool, id)
     ELSE Await(tool, backendScheduleApiUrl, key,
                [post_text |-> postText, scheduled_date |-> scheduledDate,
                 media |-> Or(media, Arr(<<>>))], id)

schedule_linkedin_post(args, id, key) ==
  LET tool == "schedule_linkedin_post"
      postText == Get(args, "post_text")
      scheduledDate == Get(args, "scheduled_date")
      media == Get(args, "media")
  IN IF ~Truthy(key) THEN NoApiKey(tool, id)
     ELSE IF NotNonEmptyString(postText)
            THEN InvalidArguments(tool, "'post_text' (string) required.", id)
     ELSE IF NotNonEmptyString(scheduledDate)
            THEN InvalidArguments(tool, "'scheduled_date' (ISO 8601 string) required.", id)
     ELSE IF ~IsoDateTest(scheduledDate.val)
            THEN InvalidArguments(tool,
                   "'scheduled_date' must be a valid ISO 8601 string (e.g., 2025-12-31T10:00:00Z).", id)
     ELSE IF BadMedia(media) THEN InvalidArguments(tool, MediaDetail, id)
     ELSE Await(tool, backendScheduleApiUrl, key,
                [post_text |-> postText, scheduled_date |-> scheduledDate,
                 media |-> Or(media, Arr(<<>>))], id)

publish_twitter_post(args, id, key) ==
  LET tool == "publish_twitter_post"
      postText == Get(args, "post_text")
  IN IF ~Truthy(key) THEN NoApiKey(tool, id)
     ELSE IF NotNonEmptyString(postText)
            THEN InvalidArguments(tool, "'post_text' (string) required.", id)
     ELSE Await(tool, backendTwitterApiUrl, key, [post_text |-> postText], id)

analyze_linkedin_chat(args, id, key) ==
  LET tool == "analyze_linkedin_chat"
      query == Get(args, "query")
      conversationHistory == Or(Get(args, "conversation_history"), Arr(<<>>))
  IN IF ~Truthy(key) THEN NoApiKey(tool, id)
     ELSE IF NotNonEmptyString(query)
            THEN InvalidArguments(tool, "'query' (string) required.", id)
     ELSE IF conversationHistory.t # "array"
            THEN InvalidArguments(tool, "'conversation_history' must be an array.", id)
     ELSE Await(tool, backendAnalyzeChatApiUrl, key,
                [query |-> query, conversation_history |-> conversationHistory], id)

generate_linkedin_post(args, id, key) ==
  LET tool == "generate_linkedin_post"
      content == Get(args, "content")
      contentType == Or(Get(args, "content_type"), Str("article"))
  IN IF ~Truthy(key) THEN NoApiKey(tool, id)
     ELSE IF NotNonEmptyString(content)
            THEN InvalidArguments(tool, "'content' (string) required.", id)
     ELSE Await(tool, backendGeneratePostApiUrl, key,
                [content |-> content, contentType |-> contentType], id)

\* typeof limit !== 'number' || limit < 1 || limit > 20
LimitOutOfRange(limit) ==
  \/ typeof(limit) # "number"
  \/ limit.int < 1
  \/ limit.int > 20
  \/ (limit.int = 20 /\ limit.half)

get_linkedin_posts(args, id, key) ==
  LET tool == "get_linkedin_posts"
      limit == Or(Get(args, "limit"), Num(5))
  IN IF ~Truthy(key) THEN NoApiKey(tool, id)
     ELSE IF LimitOutOfRange(limit)
            THEN InvalidArguments(tool, "'limit' must be a number between 1 and 20.", id)
     ELSE Await(tool, backendLinkedinPostsApiUrl, key, [limit |-> limit], id)

get_linkedin_profile(args, id, key) ==
  LET tool == "get_linkedin_profile"
  IN IF ~Truthy(key) THEN NoApiKey(tool, id)
     ELSE Await(tool, backendLinkedinProfileApiUrl, key, EmptyObject, id)

set_linkedin_url(args, id, key) ==
  LET tool == "set_linkedin_url"
      linkedinUrl == Get(args, "linkedin_url")
  IN IF ~Truthy(key) THEN NoApiKey(tool, id)
     ELSE IF NotNonEmptyString(linkedinUrl)
            THEN InvalidArguments(tool, "'linkedin_url' (string) required.", id)
     ELSE Await(tool, backendLinkedinSetUrlApiUrl, key, [linkedin_url |-> linkedinUrl], id)

refresh_linkedin_profile(args, id, key) ==
  LET tool == "refresh_linkedin_profile"
  IN IF ~Truthy(key) THEN NoApiKey(tool, id)
     ELSE Await(tool, backendLinkedinRefreshProfileApiUrl, key, EmptyObject, id)

refresh_linkedin_posts(args, id, key) ==
  LET tool == "refresh_linkedin_posts"
  IN IF ~Truthy(key) THEN NoApiKey(tool, id)
     ELSE Await(tool, backendLinkedinRefreshPostsApiUrl, key, EmptyObject, id)

(***************************************************************************)
(* Method dispatch                                                          *)
(***************************************************************************)
\* the result of initialize
InitializeResult ==
  [t |-> "object",
   protocolVersion |-> "2024-11-05",
   capabilities |-> [experimental |-> EmptyObject,
                     prompts |-> [listChanged |-> FALSE],
                     resources |-> [subscribe |-> FALSE, listChanged |-> FALSE],
                     tools |-> [listChanged |-> FALSE]],
   serverInfo |-> [name |-> "publishedPackageName", version |-> "packageVersion"]]

\* a descriptor whose inputSchema leaves out its required member
Descriptor_requiredOmitted(name, properties, required) ==
  [name |-> name, inputSchema |-> [type |-> "object", properties |-> properties,
                                   required |-> Undefined]]

\* one entry of result.tools: the name, the declared type of each property of
\* inputSchema and inputSchema.required (undefined where the schema has none)
Descriptor(name, properties, required) ==
  [name |-> name, inputSchema |-> [type |-> "object", properties |-> properties,
                                   required |-> required]]

MediaSchema == [type |-> "array", items |-> "object", required |-> <<"file_url", "filename">>]

\* the result of tools/list
ToolsListResult ==
  [t |-> "object",
   tools |-> <<
     Descriptor("publish_linkedin_post",
                [post_text |-> [type |-> "string"], media |-> MediaSchema],
                Arr(<<"post_text">>)),
     Descriptor("schedule_linkedin_post",
                [post_text |-> [type |-> "string"], scheduled_date |-> [type |-> "string"],
                 media |-> MediaSchema],
                Arr(<<"post_text", "scheduled_date">>)),
     Descriptor("publish_twitter_post", [post_text |-> [type |-> "string"]], Arr(<<"post_text">>)),
     Descriptor("analyze_linkedin_chat",
                [query |-> [type |-> "string"],
                 conversation_history |-> [type |-> "array", items |-> "object",
                                           required |-> <<"role", "content">>]],
                Arr(<<"query">>)),
     Descriptor("generate_linkedin_post",
                [content |-> [type |-> "string"], content_type |-> [type |-> "string"]],
                Arr(<<"content">>)),
     Descriptor("get_linkedin_posts", [limit |-> [type |-> "number"]], Undefined),
     Descriptor("get_linkedin_profile", EmptyObject, Undefined),
     Descriptor("set_linkedin_url", [linkedin_url |-> [type |-> "string"]], Arr(<<"linkedin_url">>)),
     Descriptor("refresh_linkedin_profile", EmptyObject, Undefined),
     Descriptor("refresh_linkedin_posts", EmptyObject, Undefined) >>]

\* the computed key without its [0]: the whole method name
SplitHead_unsplit(method) == method

\* method.split('/')[0] for the two methods it is applied to
SplitHead(method) ==
  CASE method = "resources/list" -> "resources"
    [] method = "prompts/list" -> "prompts"

\* tools/call names no handler, as a plausible slip: reported as invalid params
ToolNotFound_asInvalidParams(name, id) ==
  Done("tool-not-found", ErrorResponse(-32602, <<"Tool not found: ", Template(name)>>, id))

\* the final else of the tools/call branch: no handler has this name
ToolNotFound(name, id) ==
  Done("tool-not-found", ErrorResponse(-32601, <<"Tool not found: ", Template(name)>>, id))

\* the tools/call branch with the handler of refresh_linkedin_posts left out
toolsCall_unrouted(params, id, key) ==
  IF ~Truthy(params) \/ typeof(params) # "object"
    THEN Done("tools/call",
              ErrorResponse(-32602, <<"Invalid params for tools/call">>, id))
    ELSE LET name == Get(params, "name")
             args == Get(params, "arguments")
         IN CASE name = Str("publish_linkedin_post") -> publish_linkedin_post(args, id, key)
              [] name = Str("schedule_linkedin_post") -> schedule_linkedin_post(args, id, key)
              [] name = Str("publish_twitter_post") -> publish_twitter_post(args, id, key)
              [] name = Str("analyze_linkedin_chat") -> analyze_linkedin_chat(args, id, key)
              [] name = Str("generate_linkedin_post") -> generate_linkedin_post(args, id, key)
              [] name = Str("get_linkedin_posts") -> get_linkedin_posts(args, id, key)
              [] name = Str("get_linkedin_profile") -> get_linkedin_profile(args, id, key)
              [] name = Str("set_linkedin_url") -> set_linkedin_url(args, id, key)
              [] name = Str("refresh_linkedin_profile") -> refresh_linkedin_profile(args, id, key)
              [] OTHER -> ToolNotFound(name, id)

\* the tools/call branch of handleRequest
toolsCall(params, id, key) ==
  IF ~Truthy(params) \/ typeof(params) # "object"
    THEN Done("tools/call",
              ErrorResponse(-32602, <<"Invalid params for tools/call">>, id))
    ELSE LET name == Get(params, "name")
             args == Get(params, "arguments")
         IN CASE name = Str("publish_linkedin_post") -> publish_linkedin_post(args, id, key)
              [] name = Str("schedule_linkedin_post") -> schedule_linkedin_post(args, id, key)
              [] name = Str("publish_twitter_post") -> publish_twitter_post(args, id, key)
              [] name = Str("analyze_linkedin_chat") -> analyze_linkedin_chat(args, id, key)
              [] name = Str("generate_linkedin_post") -> generate_linkedin_post(args, id, key)
              [] name = Str("get_linkedin_posts") -> get_linkedin_posts(args, id, key)
              [] name = Str("get_linkedin_profile") -> get_linkedin_profile(args, id, key)
              [] name = Str("set_linkedin_url") -> set_linkedin_url(args, id, key)
              [] name = Str("refresh_linkedin_profile") -> refresh_linkedin_profile(args, id, key)
              [] name = Str("refresh_linkedin_posts") -> refresh_linkedin_posts(args, id, key)
              [] OTHER -> ToolNotFound(name, id)

\* the default of the dispatcher left out: an unknown method is dropped
MethodNotFound_dropped(method, id) == Silent("method-not-found")

\* the last statement of handleRequest: no branch took the method
MethodNotFound(method, id) ==
  Done("method-not-found",
       ErrorResponse(-32601, <<"Method not found: ", Template(method)>>, id))

\* the notifications/initialized branch left out: the method falls to the default
Initialized_unhandled(method, id) ==
  Done("method-not-found",
       ErrorResponse(-32601, <<"Method not found: ", Template(method)>>, id))

\* the notifications/initialized branch: logs and returns
Initialized(method, id) == Silent("notifications/initialized")

\* !request.id === undefined : a boolean compared with undefined
NotIdIsUndefined(request) ==
  Bool(~Truthy(Get(request, "id"))) = Undefined

\* the envelope check without its test of the method
BadEnvelope_methodUnchecked(request) ==
  \/ ~Truthy(request)
  \/ typeof(request) # "object"
  \/ Get(request, "jsonrpc") # Str("2.0")

\* the condition of the first if of handleRequest
BadEnvelope(request) ==
  \/ ~Truthy(request)
  \/ typeof(request) # "object"
  \/ Get(request, "jsonrpc") # Str("2.0")
  \/ NotIdIsUndefined(request)
  \/ typeof(Get(request, "method")) # "string"

\* the dispatcher without the return of its initialize and tools/list
\* branches: the request falls through to the last statement as well
dispatch_fallThrough(request, key) ==
  LET method == Get(request, "method")
      params == Get(request, "params")
      id == Get(request, "id")
      last == ErrorResponse(-32601, <<"Method not found: ", Template(method)>>, id)
  IN CASE method = Str("initialize") ->
            [Done("initialize", ResultResponse(id, InitializeResult))
               EXCEPT !.sent = Append(@, last)]
       [] method = Str("tools/call") -> toolsCall(params, id, key)
       [] method = Str("tools/list") ->
            [Done("tools/list", ResultResponse(id, ToolsListResult))
               EXCEPT !.sent = Append(@, last)]
       [] method \in {Str("resources/list"), Str("prompts/list")} ->
            Done(method.val,
                 ResultResponse(id, [m \in {"t", SplitHead(method.val)} |->
                                       IF m = "t" THEN "object" ELSE <<>>]))
       [] method = Str("notifications/initialized") -> Initialized(method, id)
       [] OTHER -> MethodNotFound(method, id)

\* the part of handleRequest after the envelope check
dispatch(request, key) ==
  LET method == Get(request, "method")
      params == Get(request, "params")
      id == Get(request, "id")
  IN CASE method = Str("initialize") ->
            Done("initialize", ResultResponse(id, InitializeResult))
       [] method = Str("tools/call") -> toolsCall(params, id, key)
       [] method = Str("tools/list") ->
            Done("tools/list", ResultResponse(id, ToolsListResult))
       [] method \in {Str("resources/list"), Str("prompts/list")} ->
            Done(method.val,
                 ResultResponse(id, [m \in {"t", SplitHead(method.val)} |->
                                       IF m = "t" THEN "object" ELSE <<>>]))
       [] method = Str("notifications/initialized") -> Initialized(method, id)
       [] OTHER -> MethodNotFound(method, id)

\* the exemption of initialize left out of the envelope check
NotInitialize_unexempted(request) == TRUE

\* request?.method !== 'initialize'
NotInitialize(request) == Get(request, "method") # Str("initialize")

\* handleRequest without the return after its Invalid Request response
handleRequest_noReturn(request, key) ==
  LET id == NullishOr(Get(request, "id"), Null)
      rejected == IF BadEnvelope(request) /\ id # Null /\ NotInitialize(request)
                    THEN <<ErrorResponse(-32600, <<"Invalid Request Structure">>, id)>>
                    ELSE <<>>
  IN IF BadEnvelope(request) /\ id = Null /\ NotInitialize(request)
       THEN Silent("invalid-request")
       ELSE [dispatch(request, key) EXCEPT !.sent = rejected \o @]

\* handleRequest(request), up to its first await
handleRequest(request, key) ==
  LET id == NullishOr(Get(request, "id"), Null)
  IN IF BadEnvelope(request) /\ id # Null /\ NotInitialize(request)
       THEN Done("invalid-request",
                 ErrorResponse(-32600, <<"Invalid Request Structure">>, id))
     ELSE IF BadEnvelope(request) /\ id = Null /\ NotInitialize(request)
       THEN Silent("invalid-request")
     ELSE dispatch(request, key)

(***************************************************************************)
(* The outcome of axios.post and the rest of a tool handler                 *)
(***************************************************************************)
\* axios.post resolved with a 2xx status and the body data
Resolved(data) == [kind |-> "resolved", status |-> 200, data |-> data, message |-> ""]

\* axios.post rejected, the backend having answered with a non-2xx status
RejectedStatus(status, data) ==
  [kind |-> "response", status |-> status, data |-> data,
   message |-> "Request failed with status code " \o ToString(status)]

\* axios.post rejected, no response received (network failure or timeout)
NoResponse ==
  [kind |-> "request", status |-> 0, data |-> Undefined,
   message |-> "timeout of 60000ms exceeded"]

\* the error caught when axios.post rejects
AxiosError(outcome) ==
  [response |-> IF outcome.kind = "response"
                  THEN [t |-> "object", status |-> outcome.status, data |-> outcome.data]
                  ELSE Undefined,
   request |-> IF outcome.kind \in {"response", "request"} THEN EmptyObject ELSE Undefined,
   message |-> outcome.message]

\* a TypeError thrown inside the try block
TypeError(message) == [response |-> Undefined, request |-> Undefined, message |-> message]

Returned(result) == [ok |-> TRUE, result |-> result]

Threw(error) == [ok |-> FALSE, error |-> error]

\* apiResponse.data && apiResponse.data.success
DataSuccess(data) == Truthy(data) /\ Truthy(Get(data, "success"))

\* apiResponse.data?.error || "Backend API Error (no detail)"
DataError(data) == Template(Or(Get(data, "error"), Str("Backend API Error (no detail)")))

\* the per-tool strings of the try and catch blocks
ToolText(tool) ==
  CASE tool = "publish_linkedin_post" ->
         [done |-> "Successfully published post to LinkedIn",
          failed |-> "Failed to publish post to LinkedIn: ",
          callFailed |-> "Failed to call backend API: ",
          status |-> "Backend API Error (Status ",
          noResponse |-> "No response received from backend API.",
          identifier |-> "post_urn", label |-> " (Post ID: "]
    [] tool = "schedule_linkedin_post" ->
         [done |-> "Successfully scheduled post for LinkedIn",
          failed |-> "Failed to schedule post for LinkedIn: ",
          callFailed |-> "Failed to call backend schedule API: ",
          status |-> "Backend API Error (Status ",
          noResponse |-> "No response received from backend schedule API.",
          identifier |-> "scheduled_job_id", label |-> " (Scheduled Job ID: "]
    [] tool = "publish_twitter_post" ->
         [done |-> "Successfully published tweet to Twitter",
          failed |-> "Failed to publish tweet to Twitter: ",
          callFailed |-> "Failed to call Twitter API: ",
          status |-> "Twitter API Error (Status ",
          noResponse |-> "No response received from Twitter API.",
          identifier |-> "tweet_id", label |-> " (Tweet ID: "]
    [] tool = "analyze_linkedin_chat" ->
         [done |-> "", failed |-> "Failed to analyze LinkedIn chat: ",
          callFailed |-> "Failed to call analyze chat API: ",
          status |-> "Backend API Error (Status ",
          noResponse |-> "No response received from analyze chat API.",
          identifier |-> "", label |-> ""]
    [] tool = "generate_linkedin_post" ->
         [done |-> "Successfully generated LinkedIn post, but no variants were returned. Please check the backend implementation.",
          failed |-> "Failed to generate LinkedIn post: ",
          callFailed |-> "Failed to call generate post API: ",
          status |-> "Backend API Error (Status ",
          noResponse |-> "No response received from generate post API.",
          identifier |-> "", label |-> ""]
    [] tool = "get_linkedin_posts" ->
         [done |-> "", failed |-> "Failed to get LinkedIn posts: ",
          callFailed |-> "Failed to call LinkedIn posts API: ",
          status |-> "Backend API Error (Status ",
          noResponse |-> "No response received from LinkedIn posts API. The server may be unavailable or experiencing issues.",
          identifier |-> "", label |-> ""]
    [] tool = "get_linkedin_profile" ->
         [done |-> "", failed |-> "Failed to get LinkedIn profile: ",
          callFailed |-> "Failed to call LinkedIn profile API: ",
          status |-> "Backend API Error (Status ",
          noResponse |-> "No response received from LinkedIn profile API. The server may be unavailable or experiencing issues.",
          identifier |-> "", label |-> ""]
    [] tool = "set_linkedin_url" ->
         [done |-> "Successfully set LinkedIn URL.",
          failed |-> "Failed to set LinkedIn URL: ",
          callFailed |-> "Failed to call set LinkedIn URL API: ",
          status |-> "Backend API Error (Status ",
          noResponse |-> "No response received from set LinkedIn URL API. The server may be unavailable or experiencing issues.",
          identifier |-> "", label |-> ""]
    [] tool = "refresh_linkedin_profile" ->
         [done |-> "Successfully refreshed LinkedIn profile data.",
          failed |-> "Failed to refresh LinkedIn profile: ",
          callFailed |-> "Failed to call refresh LinkedIn profile API: ",
          status |-> "Backend API Error (Status ",
          noResponse |-> "No response received from refresh LinkedIn profile API.",
          identifier |-> "", label |-> ""]
    [] tool = "refresh_linkedin_posts" ->
         [done |-> "Successfully refreshed LinkedIn posts data.",
          failed |-> "Failed to refresh LinkedIn posts: ",
          callFailed |-> "Failed to call refresh LinkedIn posts API: ",
          status |-> "Backend API Error (Status ",
          noResponse |-> "No response received from refresh LinkedIn posts API.",
          identifier |-> "", label |-> ""]

\* the else branch of the try block: the body does not flag success
FailedResult(tool, data, tail) ==
  ToolResult(<< <<ToolText(tool).failed, DataError(data)>> \o tail >>, TRUE)

\* the check mark that opens a confirmation text
CheckMark == "U+2705 "

\* the concatenation of a sequence of texts
RECURSIVE Flatten(_)
Flatten(texts) == IF texts = <<>> THEN <<>> ELSE Head(texts) \o Flatten(Tail(texts))

\* data.message || fallback
MessageOr(data, fallback) == Or(Get(data, "message"), Str(fallback))

\* the try block without the identifier in its confirmation
PublishThen_noIdentifier(tool, data) ==
  IF DataSuccess(data)
    THEN Returned(ToolResult(<< <<CheckMark, ToolText(tool).done, ".">> >>, FALSE))
    ELSE Returned(FailedResult(tool, data, <<>>))

\* try block of publish_linkedin_post, schedule_linkedin_post, publish_twitter_post
PublishThen(tool, data) ==
  LET identifier == Get(data, ToolText(tool).identifier)
      details == IF Truthy(identifier)
                   THEN <<ToolText(tool).label, Template(identifier), ")">>
                   ELSE <<>>
  IN IF DataSuccess(data)
       THEN Returned(ToolResult(<< <<CheckMark, ToolText(tool).done>> \o details \o <<".">> >>,
                                FALSE))
       ELSE Returned(FailedResult(tool, data, <<>>))

\* try block of analyze_linkedin_chat
AnalyzeThen(tool, data) ==
  IF Truthy(data) /\ Truthy(Get(data, "reply"))
    THEN Returned(ValueResult(Get(data, "reply"), FALSE))
    ELSE Returned(FailedResult(tool, data, <<>>))

\* try block of generate_linkedin_post
GenerateThen(tool, data) ==
  LET variants == Get(data, "variants")
  IN IF ~DataSuccess(data) THEN Returned(FailedResult(tool, data, <<>>))
     ELSE IF Truthy(variants) /\ variants.t = "array"
       THEN Returned(ToolResult(
              << <<"Generated ", ToString(Len(variants.items)), " LinkedIn post variants:">> >>
              \o [i \in DOMAIN variants.items |->
                    <<"Option ", ToString(i), ":\n", Template(variants.items[i])>>],
              FALSE))
     ELSE Returned(ValueResult(MessageOr(data, ToolText(tool).done), FALSE))

\* a || b || c rendered, for the members a, b of post and the literal c
PostField(post, a, b, c) == Template(Or(Get(post, a), Or(Get(post, b), c)))

\* try block of get_linkedin_posts
PostsThen(tool, data) ==
  LET posts == Or(Get(data, "posts"), Arr(<<>>))
      HasText(post) == Truthy(post) /\ Truthy(Get(post, "text"))
      formattedPosts == SelectSeq(posts.items, HasText)
      dataInfo == Template(Or(Get(data, "data_last_updated"), Str("Unknown")))
      stalenessInfo == Get(data, "data_staleness_info")
      infoText == <<"Found ", ToString(Len(formattedPosts)), " LinkedIn posts. Last updated: ",
                    dataInfo>>
                  \o (IF Truthy(stalenessInfo) THEN <<". ", Template(stalenessInfo)>> ELSE <<>>)
      postsAsText ==
        Flatten([i \in DOMAIN formattedPosts |->
                  <<"Post ", ToString(i), ":\nContent: ", Template(Get(formattedPosts[i], "text")),
                    "\nPosted: ", PostField(formattedPosts[i], "postedDate", "posted_at", Str("")),
                    "\nURL: ", PostField(formattedPosts[i], "post_url", "postUrl", Str("")),
                    "\nMetrics: ",
                    PostField(formattedPosts[i], "total_reactions_count", "reactions", Num(0)),
                    " reactions, ",
                    PostField(formattedPosts[i], "comments_count", "comments", Num(0)),
                    " comments, ",
                    PostField(formattedPosts[i], "reposts_count", "reposts", Num(0)),
                    " reposts\n">>])
      errorMessage == Template(Or(Get(data, "error"),
                                  Or(Get(data, "message"), Str("Backend API Error (no detail)"))))
      suggestion == IF Truthy(Get(data, "suggestion"))
                      THEN <<"\n\nSuggestion: ", Template(Get(data, "suggestion"))>>
                      ELSE <<>>
  IN IF ~DataSuccess(data)
       THEN Returned(ToolResult(<< <<ToolText(tool).failed, errorMessage>> \o suggestion >>, TRUE))
     ELSE IF posts.t # "array" THEN Threw(TypeError("posts.map is not a function"))
     ELSE Returned(ToolResult(<<infoText, postsAsText>>, FALSE))

\* try block of get_linkedin_profile
ProfileThen(tool, data) ==
  LET profile == Or(Get(data, "profile"), EmptyObject)
      Listed(member) ==
        Truthy(Get(profile, member)) /\ Get(profile, member).t = "array"
          /\ Len(Get(profile, member).items) > 0
      Entries(member) == IF Listed(member) THEN Get(profile, member).items ELSE <<>>
      Nullish(entries) == \E i \in DOMAIN entries : entries[i].t \in {"undefined", "null"}
      Either(e, a, b) == Truthy(Get(e, a)) \/ Truthy(Get(e, b))
      experienceText ==
        IF Listed("experience")
          THEN Flatten([i \in DOMAIN Entries("experience") |->
                 LET exp == Entries("experience")[i]
                 IN <<"\n\n", ToString(i), ". ", Template(Or(Get(exp, "title"), Str("Role"))),
                      " at ", Template(Or(Get(exp, "companyName"), Str("Company")))>>
                    \o (IF Either(exp, "dateRange", "duration")
                          THEN <<"\n   Duration: ", PostField(exp, "dateRange", "duration",
                                                              Str("Not specified"))>>
                          ELSE <<>>)
                    \o (IF Truthy(Get(exp, "description"))
                          THEN <<"\n   Description: ", Template(Get(exp, "description"))>>
                          ELSE <<>>)])
          ELSE <<"\n   No experience data available">>
      educationText ==
        IF Listed("education")
          THEN Flatten([i \in DOMAIN Entries("education") |->
                 LET edu == Entries("education")[i]
                 IN <<"\n\n", ToString(i), ". ",
                      PostField(edu, "schoolName", "school", Str("Institution"))>>
                    \o (IF Either(edu, "degree", "fieldOfStudy")
                          THEN <<"trim(\n   ", Template(Or(Get(edu, "degree"), Str(""))), " ",
                                 Template(Or(Get(edu, "fieldOfStudy"), Str(""))), ")">>
                          ELSE <<>>)
                    \o (IF Either(edu, "dateRange", "dates")
                          THEN <<"\n   Years: ", PostField(edu, "dateRange", "dates",
                                                           Str("Not specified"))>>
                          ELSE <<>>)])
          ELSE <<"\n   No education data available">>
      profileText ==
        <<"Headline: ", Template(Or(Get(profile, "headline"), Str("No headline"))),
          "\n\nSummary: ", Template(Or(Get(profile, "summary"), Str("No summary"))),
          "\n\n", "Experience:">> \o experienceText \o <<"\n\nEducation:">> \o educationText
  IN IF ~DataSuccess(data)
       THEN Returned(FailedResult(tool, data,
              <<". This may occur if you haven't set your LinkedIn URL yet. Try using the set_linkedin_url tool first.">>))
     ELSE IF Nullish(Entries("experience")) \/ Nullish(Entries("education"))
       THEN Threw(TypeError("Cannot read properties of null"))
     ELSE Returned(ToolResult(
            << <<"LinkedIn profile data retrieved. Last updated: ",
                 Template(Or(Get(data, "data_last_updated"), Str("Unknown")))>>,
               profileText >>, FALSE))

\* try block of set_linkedin_url, refresh_linkedin_profile, refresh_linkedin_posts
MessageThen(tool, data) ==
  IF DataSuccess(data)
    THEN Returned(ValueResult(MessageOr(data, ToolText(tool).done), FALSE))
    ELSE Returned(FailedResult(tool, data,
           IF tool = "set_linkedin_url"
             THEN <<". Please ensure the URL is a valid LinkedIn profile URL (e.g., https://www.linkedin.com/in/username/).">>
             ELSE <<>>))

\* the statements of a tool's try block after await axios.post
tryBlock(tool, data) ==
  CASE tool \in {"publish_linkedin_post", "schedule_linkedin_post", "publish_twitter_post"} ->
         PublishThen(tool, data)
    [] tool = "analyze_linkedin_chat" -> AnalyzeThen(tool, data)
    [] tool = "generate_linkedin_post" -> GenerateThen(tool, data)
    [] tool = "get_linkedin_posts" -> PostsThen(tool, data)
    [] tool = "get_linkedin_profile" -> ProfileThen(tool, data)
    [] OTHER -> MessageThen(tool, data)

AuthenticationError == "Authentication error. Your API key may be invalid or expired."

\* `Backend API Error (Status ${status}): ${extracted || "Unknown error"}`
StatusAndDetail(tool, status, extracted) ==
  <<ToolText(tool).status, ToString(status), "): ",
    Template(Or(extracted, Str("Unknown error")))>>

\* errorMessage of a catch block when error.response is set
StatusMessage(tool, response) ==
  LET status == response.status
      data == response.data
      responseData == Or(data, EmptyObject)
      asString == IF typeof(responseData) = "string" THEN responseData ELSE Null
  IN CASE tool \in {"publish_linkedin_post", "publish_twitter_post", "analyze_linkedin_chat",
                    "generate_linkedin_post"} ->
            <<ToolText(tool).status, ToString(status), ")">>
       [] tool = "schedule_linkedin_post" ->
            IF Truthy(Get(data, "error"))
              THEN <<"Backend API Error: ", Template(Get(data, "error"))>>
              ELSE <<ToolText(tool).status, ToString(status), ")">>
       [] tool = "get_linkedin_posts" ->
            IF status = 404
              THEN <<"LinkedIn posts not found. Make sure you've set your LinkedIn URL using set_linkedin_url tool and that the profile is publicly accessible.">>
                   \o (IF Truthy(Get(responseData, "suggestion"))
                         THEN <<"\n\nSuggestion: ", Template(Get(responseData, "suggestion"))>>
                         ELSE <<>>)
            ELSE IF status \in {401, 403} THEN <<AuthenticationError>>
            ELSE StatusAndDetail(tool, status,
                   Or(Get(responseData, "error"), Or(Get(responseData, "message"), asString)))
       [] tool = "get_linkedin_profile" ->
            IF status = 404
              THEN <<"LinkedIn profile not found. Make sure you've set your LinkedIn URL using set_linkedin_url tool and that the profile is publicly accessible.">>
            ELSE IF status \in {401, 403} THEN <<AuthenticationError>>
            ELSE StatusAndDetail(tool, status, Or(Get(responseData, "error"), asString))
       [] tool = "set_linkedin_url" ->
            IF status = 400
              THEN <<"Invalid LinkedIn URL format. Please provide a complete LinkedIn profile URL (e.g., https://www.linkedin.com/in/username/).">>
            ELSE IF status \in {401, 403} THEN <<AuthenticationError>>
            ELSE StatusAndDetail(tool, status, Get(data, "error"))
       [] OTHER ->
            StatusAndDetail(tool, status, Or(Get(responseData, "error"), asString))

\* the catch block of a tool handler
catchBlock(tool, error) ==
  LET errorMessage ==
        IF Truthy(error.response) THEN StatusMessage(tool, error.response)
        ELSE IF Truthy(error.request) THEN <<ToolText(tool).noResponse>>
        ELSE <<ToolText(tool).callFailed, error.message>>
  IN ToolResult(<< <<ToolText(tool).failed>> \o errorMessage >>, TRUE)

\* the rest of a tool handler, answering with the id of the line read last
\* instead of the id the handler kept
resume_lastId(call, outcome) ==
  LET attempt == IF outcome.kind = "resolved"
                   THEN tryBlock(call.tool, outcome.data)
                   ELSE Threw(AxiosError(outcome))
  IN ResultResponse(Get(lines[Len(lines)].value, "id"),
                    IF attempt.ok THEN attempt.result
                    ELSE catchBlock(call.tool, attempt.error))

\* the rest of a tool handler with a catch block that reports the failure as a
\* JSON-RPC error
resume_internalError(call, outcome) ==
  LET attempt == IF outcome.kind = "resolved"
                   THEN tryBlock(call.tool, outcome.data)
                   ELSE Threw(AxiosError(outcome))
  IN IF attempt.ok THEN ResultResponse(call.id, attempt.result)
     ELSE ErrorResponse(-32000, <<"Internal Server Error during request handling">>, call.id)

\* the rest of a tool handler once axios.post has settled: the one response it
\* sends, with the id the suspended handler kept
resume(call, outcome) ==
  LET attempt == IF outcome.kind = "resolved"
                   THEN tryBlock(call.tool, outcome.data)
                   ELSE Threw(AxiosError(outcome))
  IN ResultResponse(call.id,
                    IF attempt.ok THEN attempt.result
                    ELSE catchBlock(call.tool, attempt.error))

(***************************************************************************)
(* Input lines                                                              *)
(***************************************************************************)
\* a line that is not JSON text
NotJson(text) == [valid |-> FALSE, text |-> text, value |-> Undefined]

\* the line holding the JSON text of value
Json(value) == [valid |-> TRUE, text |-> "", value |-> value]

\* JSON.parse guarded by a test that lets an empty line through as undefined
JSONparse_emptyAccepted(line) ==
  IF line.valid \/ line.text = "" THEN [threw |-> FALSE, value |-> line.value]
                                  ELSE [threw |-> TRUE, value |-> Undefined]

\* JSON.parse(line): the value, or a SyntaxError
JSONparse(line) ==
  IF line.valid THEN [threw |-> FALSE, value |-> line.value]
                ELSE [threw |-> TRUE, value |-> Undefined]

\* { jsonrpc, id, method, params }, a member being left out where undefined
Request(jsonrpc, id, method, params) ==
  [t |-> "object", jsonrpc |-> jsonrpc, id |-> id, method |-> method, params |-> params]

\* { name, arguments }
Params(name, arguments) == [t |-> "object", name |-> name, arguments |-> arguments]

ToolNames ==
  {"publish_linkedin_post", "schedule_linkedin_post", "publish_twitter_post",
   "analyze_linkedin_chat", "generate_linkedin_post", "get_linkedin_posts",
   "get_linkedin_profile", "set_linkedin_url", "refresh_linkedin_profile",
   "refresh_linkedin_posts"}

\* arguments that pass the validation of the tool
GoodArguments(tool) ==
  CASE tool \in {"publish_linkedin_post", "publish_twitter_post"} ->
         [t |-> "object", post_text |-> Str("hello")]
    [] tool = "schedule_linkedin_post" ->
         [t |-> "object", post_text |-> Str("hello"),
          scheduled_date |-> Str("2025-12-31T10:00:00Z")]
    [] tool = "analyze_linkedin_chat" -> [t |-> "object", query |-> Str("how many posts")]
    [] tool = "generate_linkedin_post" -> [t |-> "object", content |-> Str("an article")]
    [] tool = "set_linkedin_url" ->
         [t |-> "object", linkedin_url |-> Str("https://www.linkedin.com/in/username/")]
    [] OTHER -> EmptyObject

\* { jsonrpc, id, method } with the tag "2.0"
Tagged(id, method) == Json(Request(Str("2.0"), id, method, Undefined))

\* { id, method } without a jsonrpc tag
Untagged(id, method) == Json(Request(Undefined, id, method, Undefined))

\* { jsonrpc: "2.0", id, method: "tools/call", params }
Call(id, params) == Json(Request(Str("2.0"), id, Str("tools/call"), params))

\* lines that are not JSON, and JSON values that are not objects
NonRequestLines == {NotJson(""), NotJson("{bad"), Json(Null), Json(Arr(<<>>))}

\* the envelope varied, for initialize, notifications/initialized and a method
\* the dispatcher does not know
EnvelopeLines ==
  {Tagged(i, Str(m)) : i \in {Undefined, Null, Num(1)},
                       m \in {"initialize", "notifications/initialized", "foo/bar"}}
  \cup {Untagged(i, Str(m)) : i \in {Undefined, Num(1)},
                              m \in {"initialize", "notifications/initialized"}}
  \cup {Tagged(Num(0), Str("foo/bar")),
        Json(Request(Str("1.0"), Num(1), Str("initialize"), Undefined))}

\* the method varied
MethodLines ==
  {Tagged(i, m) : i \in {Undefined, Num(1)}, m \in {Undefined, Num(7), Str("tools/list")}}
  \cup {Tagged(Null, Str("tools/list")), Tagged(Num(1), Str("resources/list")),
        Tagged(Num(1), Str("prompts/list"))}

\* tools/call with the params varied
ParamsLines ==
  {Call(Num(1), p) :
     p \in {Undefined, Null, Str("publish_linkedin_post"), Arr(<<>>),
            Params(Undefined, EmptyObject), Params(Num(3), EmptyObject),
            Params(Str("no_such_tool"), EmptyObject)}}
  \cup {Call(Undefined, Params(Str("no_such_tool"), EmptyObject))}

\* tools/call of each registered tool
ToolLines ==
  {Call(Num(1), Params(Str(n), GoodArguments(n))) : n \in ToolNames}
  \cup {Call(Num(0), Params(Str("publish_linkedin_post"), Undefined)),
        Call(Num(0), Params(Str("get_linkedin_profile"), Undefined)),
        Call(Undefined, Params(Str("get_linkedin_profile"), Str("text")))}

Lines == NonRequestLines \cup EnvelopeLines \cup MethodLines \cup ParamsLines \cup ToolLines

\* process.env.LINKEDIN_MCP_API_KEY: not set, set
ApiKeys == {Undefined, Str("secret")}

\* what a backend call can come to
Outcomes ==
  {Resolved([t |-> "object", success |-> Bool(TRUE)]),
   RejectedStatus(404, Undefined),
   NoResponse}

(***************************************************************************)
(* The process                                                              *)
(***************************************************************************)
\* main() in server mode: the listener is set up, nothing has been read
Init ==
  /\ apiKey \in ApiKeys
  /\ lines = <<>>
  /\ trace = <<>>
  /\ out = <<>>
  /\ calls = <<>>
  /\ pending = {}
  /\ phase = "serving"
  /\ stdin = "open"
  /\ signals = <<>>
  /\ settled = {}

\* the response to a line that JSON.parse rejects
ParseErrorResponse == ErrorResponse(-32700, <<"Parse error">>, Null)

\* a listener whose responses stay in a buffer until the next line is read:
\* reading a line writes the responses of the line before it
Line_writeBehind(l) ==
  LET k == Len(lines) + 1
      parsed == JSONparse(l)
      h == handleRequest(parsed.value, apiKey)
      before == IF k = 1 THEN <<>>
                ELSE IF JSONparse(lines[k - 1]).threw THEN <<ParseErrorResponse>>
                ELSE handleRequest(JSONparse(lines[k - 1]).value, apiKey).sent
  IN /\ phase = "serving"
     /\ stdin = "open"
     /\ lines' = Append(lines, l)
     /\ out' = out \o [i \in DOMAIN before |-> sendResponse(k - 1, before[i])]
     /\ IF parsed.threw
          THEN /\ trace' = Append(trace, "parse-error")
               /\ UNCHANGED <<calls, pending>>
          ELSE /\ trace' = Append(trace, h.branch)
               /\ calls' = calls \o [i \in DOMAIN h.post |-> [src |-> k, call |-> h.post[i]]]
               /\ pending' = pending \cup {[src |-> k, call |-> h.post[i]] : i \in DOMAIN h.post}
     /\ UNCHANGED <<apiKey, phase, stdin, signals, settled>>

\* a listener that reads its next line when the handler of the line before
\* has returned from its backend call
Line_oneAtATime(l) ==
  LET k == Len(lines) + 1
      parsed == JSONparse(l)
      h == handleRequest(parsed.value, apiKey)
  IN /\ phase = "serving"
     /\ stdin = "open"
     /\ pending = {}
     /\ lines' = Append(lines, l)
     /\ IF parsed.threw
          THEN /\ trace' = Append(trace, "parse-error")
               /\ out' = Append(out, sendResponse(k, ParseErrorResponse))
               /\ UNCHANGED <<calls, pending>>
          ELSE /\ trace' = Append(trace, h.branch)
               /\ out' = out \o [i \in DOMAIN h.sent |-> sendResponse(k, h.sent[i])]
               /\ calls' = calls \o [i \in DOMAIN h.post |-> [src |-> k, call |-> h.post[i]]]
               /\ pending' = pending \cup {[src |-> k, call |-> h.post[i]] : i \in DOMAIN h.post}
     /\ UNCHANGED <<apiKey, phase, stdin, signals, settled>>

\* a listener that keeps a session: until an initialize request has been
\* read, tools/list and tools/call are turned down
Line_requiresInitialize(l) ==
  LET k == Len(lines) + 1
      parsed == JSONparse(l)
      initialized == \E n \in DOMAIN lines :
                       /\ ~JSONparse(lines[n]).threw
                       /\ Get(JSONparse(lines[n]).value, "method") = Str("initialize")
      h == IF /\ ~initialized
              /\ Get(parsed.value, "method") \in {Str("tools/list"), Str("tools/call")}
             THEN Done("not-initialized",
                       ErrorResponse(-32002, <<"Server not initialized">>,
                                     Get(parsed.value, "id")))
             ELSE handleRequest(parsed.value, apiKey)
  IN /\ phase = "serving"
     /\ stdin = "open"
     /\ lines' = Append(lines, l)
     /\ IF parsed.threw
          THEN /\ trace' = Append(trace, "parse-error")
               /\ out' = Append(out, sendResponse(k, ParseErrorResponse))
               /\ UNCHANGED <<calls, pending>>
          ELSE /\ trace' = Append(trace, h.branch)
               /\ out' = out \o [i \in DOMAIN h.sent |-> sendResponse(k, h.sent[i])]
               /\ calls' = calls \o [i \in DOMAIN h.post |-> [src |-> k, call |-> h.post[i]]]
               /\ pending' = pending \cup {[src |-> k, call |-> h.post[i]] : i \in DOMAIN h.post}
     /\ UNCHANGED <<apiKey, phase, stdin, signals, settled>>

\* the line listener without its try and catch: a line that JSON.parse
\* rejects is an uncaught exception, and the process ends
Line_fatalParseError(l) ==
  LET k == Len(lines) + 1
      parsed == JSONparse(l)
      h == handleRequest(parsed.value, apiKey)
  IN /\ phase = "serving"
     /\ stdin = "open"
     /\ lines' = Append(lines, l)
     /\ IF parsed.threw
          THEN /\ trace' = Append(trace, "parse-error")
               /\ phase' = "exited"
               /\ UNCHANGED <<out, calls, pending>>
          ELSE /\ trace' = Append(trace, h.branch)
               /\ out' = out \o [i \in DOMAIN h.sent |-> sendResponse(k, h.sent[i])]
               /\ calls' = calls \o [i \in DOMAIN h.post |-> [src |-> k, call |-> h.post[i]]]
               /\ pending' = pending \cup {[src |-> k, call |-> h.post[i]] : i \in DOMAIN h.post}
               /\ phase' = phase
     /\ UNCHANGED <<apiKey, stdin, signals, settled>>

\* rl.on('line'): parse the line and run handleRequest up to its first await
Line(l) ==
  LET k == Len(lines) + 1
      parsed == JSONparse(l)
      h == handleRequest(parsed.value, apiKey)
  IN /\ phase = "serving"
     /\ stdin = "open"
     /\ lines' = Append(lines, l)
     /\ IF parsed.threw
          THEN /\ trace' = Append(trace, "parse-error")
               /\ out' = Append(out, sendResponse(k, ParseErrorResponse))
               /\ UNCHANGED <<calls, pending>>
          ELSE /\ trace' = Append(trace, h.branch)
               /\ out' = out \o [i \in DOMAIN h.sent |-> sendResponse(k, h.sent[i])]
               /\ calls' = calls \o [i \in DOMAIN h.post |-> [src |-> k, call |-> h.post[i]]]
               /\ pending' = pending \cup {[src |-> k, call |-> h.post[i]] : i \in DOMAIN h.post}
     /\ UNCHANGED <<apiKey, phase, stdin, signals, settled>>

ReceiveLine == \E l \in Lines : Len(lines) < MaxLines /\ Line(l)

\* a handler that rejects after it has sent its response: the catch of the
\* listener then sends the internal error for the same request
Settle_thenRejects(p, outcome) ==
  /\ phase = "serving"
  /\ p \in pending
  /\ out' = out \o <<sendResponse(p.src, resume(p.call, outcome)),
                     sendResponse(p.src,
                       ErrorResponse(-32000,
                                     <<"Internal Server Error during request handling">>,
                                     p.call.id))>>
  /\ pending' = pending \ {p}
  /\ settled' = settled \cup {[src |-> p.src, outcome |-> outcome, stdin |-> stdin]}
  /\ UNCHANGED <<apiKey, lines, trace, calls, phase, stdin, signals>>

\* a handler without its catch block: a failed request ends the process
\* without a response
Settle_crashOnFailure(p, outcome) ==
  /\ phase = "serving"
  /\ p \in pending
  /\ IF outcome.kind = "resolved"
       THEN out' = Append(out, sendResponse(p.src, resume(p.call, outcome))) /\ phase' = phase
       ELSE out' = out /\ phase' = "exited"
  /\ pending' = pending \ {p}
  /\ settled' = settled \cup {[src |-> p.src, outcome |-> outcome, stdin |-> stdin]}
  /\ UNCHANGED <<apiKey, lines, trace, calls, stdin, signals>>

\* axios.post of a suspended handler settles and the handler runs to its end
Settle(p, outcome) ==
  /\ phase = "serving"
  /\ p \in pending
  /\ out' = Append(out, sendResponse(p.src, resume(p.call, outcome)))
  /\ pending' = pending \ {p}
  /\ settled' = settled \cup {[src |-> p.src, outcome |-> outcome, stdin |-> stdin]}
  /\ UNCHANGED <<apiKey, lines, trace, calls, phase, stdin, signals>>

\* one continuation shared by the handlers: the answer to a request resumes
\* the handler of the request read last
BackendAnswers_sharedHandler ==
  \E p \in pending, outcome \in Outcomes :
    LET last == CHOOSE q \in pending : \A r \in pending : r.src <= q.src
    IN /\ phase = "serving"
       /\ out' = Append(out, sendResponse(p.src, resume(last.call, outcome)))
       /\ pending' = pending \ {p}
       /\ settled' = settled \cup {[src |-> p.src, outcome |-> outcome, stdin |-> stdin]}
       /\ UNCHANGED <<apiKey, lines, trace, calls, phase, stdin, signals>>

BackendAnswers == \E p \in pending, outcome \in Outcomes : Settle(p, outcome)

\* a SIGINT handler that lets the calls in flight finish before it exits
Sigint_afterPending ==
  /\ phase = "serving"
  /\ pending = {}
  /\ phase' = "exited"
  /\ UNCHANGED <<apiKey, lines, trace, out, calls, pending, stdin, signals, settled>>

\* process.on('SIGINT'): process.exit(0)
Sigint ==
  /\ phase = "serving"
  /\ phase' = "exited"
  /\ UNCHANGED <<apiKey, lines, trace, out, calls, pending, stdin, signals, settled>>

\* SIGTERM with the default disposition of the signal: the process ends
Sigterm_exits ==
  /\ phase = "serving"
  /\ Len(signals) < MaxSigterm
  /\ signals' = Append(signals, [lines |-> Len(lines), pending |-> pending])
  /\ phase' = "exited"
  /\ UNCHANGED <<apiKey, lines, trace, out, calls, pending, stdin, settled>>

\* process.on('SIGTERM'): logs and returns
Sigterm ==
  /\ phase = "serving"
  /\ Len(signals) < MaxSigterm
  /\ signals' = Append(signals, [lines |-> Len(lines), pending |-> pending])
  /\ UNCHANGED <<apiKey, lines, trace, out, calls, pending, phase, stdin, settled>>

\* a close listener that abandons the handlers suspended in a backend call
StdinClose_abandons ==
  /\ phase = "serving"
  /\ stdin = "open"
  /\ stdin' = "closed"
  /\ pending' = {}
  /\ UNCHANGED <<apiKey, lines, trace, out, calls, phase, signals, settled>>

\* the close listener ending the process, as process.exit(0) would
StdinClose_exits ==
  /\ phase = "serving"
  /\ stdin = "open"
  /\ stdin' = "closed"
  /\ phase' = "exited"
  /\ UNCHANGED <<apiKey, lines, trace, out, calls, pending, signals, settled>>

\* rl.on('close'): logs and returns; the interval set by main keeps the
\* process resident
StdinClose ==
  /\ phase = "serving"
  /\ stdin = "open"
  /\ stdin' = "closed"
  /\ UNCHANGED <<apiKey, lines, trace, out, calls, pending, phase, signals, settled>>

Next == ReceiveLine \/ BackendAnswers \/ Sigint

Spec == Init /\ [][Next]_vars

(***************************************************************************)
(* The tool handlers under varied arguments: the same listener, fed with    *)
(* tools/call requests only, and the credential also set to the empty       *)
(* string.                                                                  *)
(***************************************************************************)
\* number of tools/call lines the listener receives in one run
MaxCalls == 1

\* { post_text, media }, a member being left out where undefined
PostArguments(postText, media) == [t |-> "object", post_text |-> postText, media |-> media]

\* { post_text, scheduled_date, media }
ScheduleArguments(postText, scheduledDate, media) ==
  [t |-> "object", post_text |-> postText, scheduled_date |-> scheduledDate, media |-> media]

\* { file_url, filename }
MediaItem(fileUrl, filename) == [t |-> "object", file_url |-> fileUrl, filename |-> filename]

GoodMediaItem == MediaItem(Str("https://example.com/a.png"), Str("a.png"))

\* values of a required string argument: missing, not a string, blank, good
RequiredStrings == {Undefined, Null, Num(7), Str(""), Str("  "), Str("hello")}

\* values of scheduled_date
ScheduledDates ==
  {Undefined, Num(2025), Str(" "),
   Str("2025-12-31T10:00:00Z"), Str("2020-01-01T00:00:00.5+02:00"),
   Str("1999-12-31T23:59:59-05:30"),
   Str("2099-01-01T00:00Z"), Str("2025-12-31T10:00:00"), Str("2025-12-31T10:00:00.Z"),
   Str("2025-12-31T10:00:00+0530"), Str("tomorrow")}

\* values of media
Medias ==
  {Undefined, Null, Bool(FALSE), Num(0), Str(""), Str("a.png"), GoodMediaItem,
   Arr(<<>>), Arr(<<GoodMediaItem>>), Arr(<<GoodMediaItem, GoodMediaItem>>),
   Arr(<<Null>>), Arr(<<Str("a.png")>>), Arr(<<Arr(<<>>)>>),
   Arr(<<MediaItem(Str("https://example.com/a.png"), Undefined)>>),
   Arr(<<MediaItem(Num(1), Str("a.png"))>>),
   Arr(<<GoodMediaItem, MediaItem(Undefined, Str("b.png"))>>)}

\* values of conversation_history
ConversationHistories ==
  {Undefined, Null, Num(0), Str("earlier"), EmptyObject, Arr(<<>>),
   Arr(<<[t |-> "object", role |-> Str("user"), content |-> Str("hi")]>>),
   Arr(<<Num(3)>>),
   Arr(<<[t |-> "object", role |-> Num(1)]>>)}

\* values of content_type
ContentTypes ==
  {Undefined, Null, Str(""), Str("newsletter"), Num(7), Bool(TRUE), Arr(<<>>)}

\* values of limit
Limits ==
  {Undefined, Null, Num(0), Num(1), Num(5), Num(20), Num(21), Num(-3),
   NumHalf(0), NumHalf(2), NumHalf(20), Str("5"), Str(""), Bool(TRUE), Bool(FALSE)}

\* the arguments each tool is called with
ToolArguments(tool) ==
  CASE tool = "publish_linkedin_post" ->
         {PostArguments(p, Undefined) : p \in RequiredStrings}
         \cup {PostArguments(Str("hello"), m) : m \in Medias}
    [] tool = "schedule_linkedin_post" ->
         {ScheduleArguments(p, Str("2025-12-31T10:00:00Z"), Undefined) : p \in RequiredStrings}
         \cup {ScheduleArguments(Str("hello"), d, Undefined) : d \in ScheduledDates}
         \cup {ScheduleArguments(Str("hello"), Str("2025-12-31T10:00:00Z"), m) : m \in Medias}
         \cup {ScheduleArguments(Str("hello"), Str("2099-01-01T00:00Z"), Arr(<<GoodMediaItem>>))}
    [] tool = "publish_twitter_post" ->
         {[t |-> "object", post_text |-> p] : p \in RequiredStrings}
    [] tool = "analyze_linkedin_chat" ->
         {[t |-> "object", query |-> q, conversation_history |-> Undefined] :
            q \in RequiredStrings}
         \cup {[t |-> "object", query |-> Str("hello"), conversation_history |-> h] :
                 h \in ConversationHistories}
    [] tool = "generate_linkedin_post" ->
         {[t |-> "object", content |-> c, content_type |-> Undefined] : c \in RequiredStrings}
         \cup {[t |-> "object", content |-> Str("hello"), content_type |-> c] :
                 c \in ContentTypes}
    [] tool = "get_linkedin_posts" ->
         {[t |-> "object", limit |-> l] : l \in Limits}
    [] tool = "set_linkedin_url" ->
         {[t |-> "object", linkedin_url |-> u] : u \in RequiredStrings}
    [] OTHER -> {EmptyObject, [t |-> "object", limit |-> Num(5)]}

\* tools/call of each registered tool: with an id and the arguments varied,
\* without arguments, and as a request without id
ToolCallLines ==
  {Call(Num(1), Params(Str(n), a)) : n \in ToolNames, a \in {Undefined, Str("text")}}
  \cup UNION {{Call(Num(1), Params(Str(n), a)) : a \in ToolArguments(n)} : n \in ToolNames}
  \cup {Call(Undefined, Params(Str(n), GoodArguments(n))) : n \in ToolNames}

\* process.env.LINKEDIN_MCP_API_KEY: not set, set to the empty string, set
ToolApiKeys == {Undefined, Str(""), Str("secret")}

ToolInit ==
  /\ apiKey \in ToolApiKeys
  /\ lines = <<>>
  /\ trace = <<>>
  /\ out = <<>>
  /\ calls = <<>>
  /\ pending = {}
  /\ phase = "serving"
  /\ stdin = "open"
  /\ signals = <<>>
  /\ settled = {}

\* rl.on('line') for a line that holds a tools/call request
ToolCall == \E l \in ToolCallLines : Len(lines) < MaxCalls /\ Line(l)

ToolNext == ToolCall \/ BackendAnswers \/ Sigint

ToolSpec == ToolInit /\ [][ToolNext]_vars

(***************************************************************************)
(* A session: initialize, tools/list and tools/call requests in any order   *)
(* and with any spacing between them and the backend's answers              *)
(***************************************************************************)
\* number of lines the listener receives in one session
MaxSession == 3

\* initialize, tools/list, two valid tools/call and a line that is not JSON
SessionLines ==
  {Tagged(Num(1), Str("initialize")),
   Tagged(Num(2), Str("tools/list")),
   Call(Num(3), Params(Str("publish_linkedin_post"), GoodArguments("publish_linkedin_post"))),
   Call(Num(4), Params(Str("get_linkedin_profile"), EmptyObject)),
   NotJson("{bad")}

\* rl.on('line') for a line of the session
SessionLine == \E l \in SessionLines : Len(lines) < MaxSession /\ Line(l)

SessionNext == SessionLine \/ BackendAnswers \/ Sigint

SessionSpec == Init /\ [][SessionNext]_vars

(***************************************************************************)
(* The life of the process: lines of every kind, the signals and the        *)
(* closure of the input stream                                              *)
(***************************************************************************)
\* number of lines the listener receives in one life
MaxLife == 2

\* a request that is answered at once, a valid tools/call, and a line of each
\* kind that is turned down
LifeLines ==
  {Tagged(Num(1), Str("initialize")),
   Call(Num(3), Params(Str("publish_linkedin_post"), GoodArguments("publish_linkedin_post"))),
   NotJson("{bad"),
   Tagged(Num(5), Str("foo/bar")),
   Untagged(Num(6), Str("tools/list")),
   Call(Num(7), Params(Str("no_such_tool"), EmptyObject)),
   Call(Num(8), Params(Str("publish_twitter_post"), EmptyObject))}

\* rl.on('line') for a line of the life
LifeLine == \E l \in LifeLines : Len(lines) < MaxLife /\ Line(l)

LifeNext == LifeLine \/ BackendAnswers \/ Sigint \/ Sigterm \/ StdinClose

LifeSpec == Init /\ [][LifeNext]_vars

(***************************************************************************)
(* The backend: a valid call of each tool, and what the backend can answer  *)
(***************************************************************************)
\* number of valid tools/call lines the listener receives in one run
MaxBackendCalls == 1

\* a valid tools/call of each tool
BackendLines == {Call(Num(1), Params(Str(n), GoodArguments(n))) : n \in ToolNames}

\* bodies of a 2xx answer
Bodies ==
  {[t |-> "object", success |-> Bool(TRUE)],
   [t |-> "object", success |-> Bool(TRUE), post_urn |-> Str("urn:li:share:1"),
    scheduled_job_id |-> Str("job-1"), tweet_id |-> Str("tweet-1")],
   [t |-> "object", success |-> Bool(TRUE), reply |-> Str("You have 3 posts.")],
   [t |-> "object", reply |-> Str("You have 3 posts.")],
   [t |-> "object", success |-> Bool(TRUE), reply |-> Num(42), message |-> Num(42)],
   [t |-> "object", success |-> Bool(TRUE), message |-> Str("Done."),
    variants |-> Arr(<<Str("First"), Str("Second")>>),
    posts |-> Arr(<<[t |-> "object", text |-> Str("Hello")]>>),
    profile |-> [t |-> "object", headline |-> Str("Engineer")]],
   [t |-> "object", success |-> Bool(TRUE), posts |-> Str("none"),
    profile |-> [t |-> "object", experience |-> Arr(<<Null>>)]],
   [t |-> "object", success |-> Bool(FALSE), error |-> Str("Quota exceeded")],
   [t |-> "object", success |-> Bool(FALSE)],
   EmptyObject,
   Str("")}

\* what a backend call can come to: a 2xx answer with each body, a non-2xx
\* answer with or without an error in its body, no answer at all
BackendOutcomes ==
  {Resolved(b) : b \in Bodies}
  \cup {RejectedStatus(n, Undefined) : n \in {400, 401, 403, 404, 500}}
  \cup {RejectedStatus(n, [t |-> "object", error |-> Str("Not allowed")]) : n \in {401, 404, 500}}
  \cup {NoResponse}

\* rl.on('line') for a valid tools/call
BackendCall == \E l \in BackendLines : Len(lines) < MaxBackendCalls /\ Line(l)

\* axios.post of a suspended handler settles, the backend answering anything
BackendSettles == \E p \in pending, outcome \in BackendOutcomes : Settle(p, outcome)

BackendNext == BackendCall \/ BackendSettles \/ Sigint

BackendSpec == Init /\ [][BackendNext]_vars

(***************************************************************************)
(* Reading a run: line k of the input, what it held and what came of it     *)
(***************************************************************************)
ValueAt(k) == lines[k].value

IdAt(k) == Get(ValueAt(k), "id")

MethodAt(k) == Get(ValueAt(k), "method")

ParamsAt(k) == Get(ValueAt(k), "params")

\* line k is JSON
Decoded(k) == lines[k].valid

\* line k is JSON and carries a non-null id
HasId(k) == Decoded(k) /\ IdAt(k).t \notin {"undefined", "null"}

\* line k is a JSON object with the tag "2.0" and a string method
WellFormed(k) ==
  /\ Decoded(k)
  /\ ValueAt(k).t = "object"
  /\ Get(ValueAt(k), "jsonrpc") = Str("2.0")
  /\ MethodAt(k).t = "string"

\* the output lines caused by input line k
ResponsesTo(k) == {i \in DOMAIN out : out[i].src = k}

\* the HTTP requests issued for input line k
CallsOf(k) == {i \in DOMAIN calls : calls[i].src = k}

\* the handler of line k is suspended in axios.post
InFlight(k) == \E p \in pending : p.src = k

\* output line i is an error envelope with this code
IsError(i, code) ==
  /\ "error" \in out[i].line.members
  /\ "result" \notin out[i].line.members
  /\ out[i].line.error.code = code

\* output line i is a result envelope
IsResult(i) ==
  /\ "result" \in out[i].line.members
  /\ "error" \notin out[i].line.members

\* output line i carries the id of input line k, and no id member when line k has none
EchoesId(i, k) ==
  /\ out[i].line.id = IdAt(k)
  /\ ("id" \in out[i].line.members) <=> (IdAt(k) # Undefined)

\* line k is a notifications/initialized request with the tag "2.0"
IsInitializedNotification(k) ==
  WellFormed(k) /\ MethodAt(k) = Str("notifications/initialized")

(***************************************************************************)
(* Claims                                                                   *)
(***************************************************************************)
\* C1 as stated: every line that decodes to a request with a non-null id has
\* exactly one response line, none being missing once its handler has ended
C1_ExactlyOneResponse_AsStated ==
  \A k \in DOMAIN lines :
    HasId(k) => Cardinality(ResponsesTo(k)) = (IF InFlight(k) THEN 0 ELSE 1)

\* C1 amended: a line that decodes to a request with a non-null id has exactly
\* one response line, written at once when no HTTP request is issued and when
\* the HTTP request settles otherwise, except that a notifications/initialized
\* request with the tag "2.0" has none
C1_ExactlyOneResponse ==
  \A k \in DOMAIN lines :
    HasId(k) =>
      Cardinality(ResponsesTo(k)) =
        (IF InFlight(k) \/ IsInitializedNotification(k) THEN 0 ELSE 1)

\* C1 witness: a request with an id whose HTTP request settled and was answered
C1_Witness ==
  \E k \in DOMAIN lines :
    HasId(k) /\ CallsOf(k) # {} /\ ~InFlight(k) /\ Cardinality(ResponsesTo(k)) = 1

\* C2 as stated: a response carries the id of its request, and a null id only
\* for a parse failure
C2_ResponseId_AsStated ==
  \A i \in DOMAIN out :
    LET k == out[i].src
    IN /\ "id" \in out[i].line.members
       /\ IF Decoded(k) THEN out[i].line.id = IdAt(k) /\ out[i].line.id # Null
                        ELSE out[i].line.id = Null

\* C2 amended: a response carries the id of the request line that caused it
\* (no id member when the request has none), also for handlers suspended in
\* their HTTP request; the id is null only for a parse failure and for the
\* answer to a request whose own id is null
C2_ResponseId ==
  /\ \A i \in DOMAIN out :
       LET k == out[i].src
       IN IF Decoded(k) THEN EchoesId(i, k)
                        ELSE "id" \in out[i].line.members /\ out[i].line.id = Null
  /\ \A p \in pending : p.call.id = IdAt(p.src)

\* C2 witness: two requests with different ids, the later one answered first
C2_Witness ==
  \E i, j \in DOMAIN out :
    /\ i < j
    /\ out[i].src > out[j].src
    /\ HasId(out[i].src) /\ HasId(out[j].src)
    /\ IdAt(out[i].src) # IdAt(out[j].src)
    /\ CallsOf(out[i].src) # {} /\ CallsOf(out[j].src) # {}

\* C3: a decoded line without an id, or with a null id, whose method is not
\* initialize has no response line
C3_NotificationsSilent ==
  \A k \in DOMAIN lines :
    (Decoded(k) /\ ~HasId(k) /\ MethodAt(k) # Str("initialize")) => ResponsesTo(k) = {}

\* line k parses as JSON but is not a well-formed request: not an object, the
\* jsonrpc tag not "2.0", or the method not a string
Malformed(k) == Decoded(k) /\ ~WellFormed(k)

\* C4: a line that is not JSON (the empty line included) has exactly one
\* response, the error -32700 with id null, no handler having run and no HTTP
\* request having been issued for it; the lines after it are still read,
\* handled and answered
C4_ParseError ==
  \A k \in DOMAIN lines :
    ~Decoded(k) =>
      /\ Cardinality(ResponsesTo(k)) = 1
      /\ \A i \in ResponsesTo(k) :
           IsError(i, -32700) /\ "id" \in out[i].line.members /\ out[i].line.id = Null
      /\ trace[k] = "parse-error"
      /\ CallsOf(k) = {}
      /\ \A j \in (k + 1)..Len(lines) :
           /\ Decoded(j) => trace[j] # "parse-error"
           /\ (HasId(j) /\ ~IsInitializedNotification(j)) =>
                (InFlight(j) \/ ResponsesTo(j) # {})

\* C4 witness: the empty line, answered, with a request after it answered too
C4_Witness ==
  \E k, j \in DOMAIN lines :
    /\ k < j
    /\ lines[k] = NotJson("")
    /\ ResponsesTo(k) # {}
    /\ HasId(j) /\ ResponsesTo(j) # {}

\* C5: a JSON line that is no well-formed request and whose method is not
\* initialize runs no method handler; with a non-null id it has exactly one
\* response, the error -32600 with that id, and without one it has none
C5_InvalidRequest ==
  \A k \in DOMAIN lines :
    (Malformed(k) /\ MethodAt(k) # Str("initialize")) =>
      /\ trace[k] = "invalid-request"
      /\ CallsOf(k) = {}
      /\ IF HasId(k)
           THEN /\ Cardinality(ResponsesTo(k)) = 1
                /\ \A i \in ResponsesTo(k) : IsError(i, -32600) /\ EchoesId(i, k)
           ELSE ResponsesTo(k) = {}

\* C5 witness: a request without a method answered with -32600, and one
\* without an id dropped
C5_Witness ==
  \E k, j \in DOMAIN lines :
    /\ Malformed(k) /\ HasId(k) /\ MethodAt(k) = Undefined /\ ResponsesTo(k) # {}
    /\ Malformed(j) /\ ~HasId(j) /\ MethodAt(j) # Str("initialize") /\ ResponsesTo(j) = {}

\* C6: a request whose method is initialize has exactly one response, the
\* result with protocolVersion, capabilities and serverInfo, echoing its id,
\* whatever its jsonrpc tag and whether or not it has an id
C6_InitializeAlwaysAnswered ==
  \A k \in DOMAIN lines :
    (Decoded(k) /\ MethodAt(k) = Str("initialize")) =>
      /\ Cardinality(ResponsesTo(k)) = 1
      /\ \A i \in ResponsesTo(k) :
           /\ IsResult(i)
           /\ EchoesId(i, k)
           /\ {"protocolVersion", "capabilities", "serverInfo"} \subseteq DOMAIN out[i].line.result
           /\ out[i].line.result.protocolVersion = "2024-11-05"

\* C6 witness: initialize without a jsonrpc tag and without an id, answered
C6_Witness ==
  \E k \in DOMAIN lines :
    /\ Decoded(k) /\ MethodAt(k) = Str("initialize")
    /\ Get(ValueAt(k), "jsonrpc") = Undefined
    /\ IdAt(k) = Undefined
    /\ Cardinality(ResponsesTo(k)) = 1

\* the methods the dispatcher has a branch for
KnownMethods ==
  {"initialize", "tools/list", "tools/call", "resources/list", "prompts/list",
   "notifications/initialized"}

\* C7: a well-formed request with a non-null id whose method is none of the
\* six the dispatcher knows has exactly one response, the error -32601 with
\* its id
C7_MethodNotFound ==
  \A k \in DOMAIN lines :
    (WellFormed(k) /\ HasId(k) /\ MethodAt(k).val \notin KnownMethods) =>
      /\ Cardinality(ResponsesTo(k)) = 1
      /\ \A i \in ResponsesTo(k) : IsError(i, -32601) /\ EchoesId(i, k)
      /\ CallsOf(k) = {}

\* C7 witness: a request for an unknown method with id 0, answered
C7_Witness ==
  \E k \in DOMAIN lines :
    /\ WellFormed(k) /\ IdAt(k) = Num(0) /\ MethodAt(k) = Str("foo/bar")
    /\ ResponsesTo(k) # {}

\* line k is a well-formed tools/call request with a non-null id
IsToolsCall(k) == WellFormed(k) /\ HasId(k) /\ MethodAt(k) = Str("tools/call")

\* params is an object with a string name and an object arguments
ValidShape(params) ==
  /\ params.t = "object"
  /\ Get(params, "name").t = "string"
  /\ Get(params, "arguments").t = "object"

\* C8: a tools/call whose params is not an object, or lacks a string name, or
\* lacks an object arguments, is answered with -32602, runs no tool handler
\* and issues no HTTP request
C8_InvalidParams ==
  \A k \in DOMAIN lines :
    (IsToolsCall(k) /\ ~ValidShape(ParamsAt(k))) =>
      /\ Cardinality(ResponsesTo(k)) = 1
      /\ \A i \in ResponsesTo(k) : IsError(i, -32602)
      /\ trace[k] \notin ToolNames
      /\ CallsOf(k) = {}

\* C9: a tools/call with params of the valid shape whose name is no registered
\* tool has exactly one response, the error -32601 Tool not found with its id,
\* and issues no HTTP request
C9_ToolNotFound ==
  \A k \in DOMAIN lines :
    (IsToolsCall(k) /\ ValidShape(ParamsAt(k)) /\ Get(ParamsAt(k), "name").val \notin ToolNames) =>
      /\ Cardinality(ResponsesTo(k)) = 1
      /\ \A i \in ResponsesTo(k) :
           /\ IsError(i, -32601)
           /\ out[i].line.error.message = <<"Tool not found: ", Get(ParamsAt(k), "name").val>>
           /\ EchoesId(i, k)
      /\ CallsOf(k) = {}

\* C9 witness: a tools/call of no_such_tool with object arguments, answered
C9_Witness ==
  \E k \in DOMAIN lines :
    /\ IsToolsCall(k)
    /\ ParamsAt(k) = Params(Str("no_such_tool"), EmptyObject)
    /\ ResponsesTo(k) # {}

\* C10 as stated: a line whose method is notifications/initialized has no
\* output line
C10_InitializedSilent_AsStated ==
  \A k \in DOMAIN lines :
    (Decoded(k) /\ MethodAt(k) = Str("notifications/initialized")) => ResponsesTo(k) = {}

\* C10 amended: a line with the tag "2.0" whose method is
\* notifications/initialized has no output line, whether or not it has an id
C10_InitializedSilent ==
  \A k \in DOMAIN lines :
    IsInitializedNotification(k) =>
      ResponsesTo(k) = {} /\ CallsOf(k) = {} /\ trace[k] = "notifications/initialized"

\* C10 witness: notifications/initialized with id 1 and with no id, both read
\* and left unanswered
C10_Witness ==
  \E k, j \in DOMAIN lines :
    /\ IsInitializedNotification(k) /\ IdAt(k) = Num(1) /\ ResponsesTo(k) = {}
    /\ IsInitializedNotification(j) /\ IdAt(j) = Undefined /\ ResponsesTo(j) = {}

(***************************************************************************)
(* The list methods                                                         *)
(***************************************************************************)
\* the part of a list method's name before the slash
ListKind(method) == IF method = "resources/list" THEN "resources" ELSE "prompts"

\* C11: a well-formed resources/list or prompts/list request has exactly one
\* response, a result whose only key is the part of the method name before the
\* slash, holding an empty list, and the response echoes the request id
C11_EmptyLists ==
  \A k \in DOMAIN lines :
    (WellFormed(k) /\ MethodAt(k) \in {Str("resources/list"), Str("prompts/list")}) =>
      /\ Cardinality(ResponsesTo(k)) = 1
      /\ \A i \in ResponsesTo(k) :
           /\ IsResult(i)
           /\ DOMAIN out[i].line.result = {"t", ListKind(MethodAt(k).val)}
           /\ out[i].line.result[ListKind(MethodAt(k).val)] = <<>>
           /\ EchoesId(i, k)
      /\ CallsOf(k) = {}

\* C11 witness: a resources/list and a prompts/list request, both answered
C11_Witness ==
  \E j, k \in DOMAIN lines :
    /\ WellFormed(j) /\ MethodAt(j) = Str("resources/list") /\ ResponsesTo(j) # {}
    /\ WellFormed(k) /\ MethodAt(k) = Str("prompts/list") /\ ResponsesTo(k) # {}

(***************************************************************************)
(* The tool registry                                                        *)
(***************************************************************************)
\* the tools and their required arguments
ToolTable ==
  {[name |-> "publish_linkedin_post", required |-> {"post_text"}],
   [name |-> "schedule_linkedin_post", required |-> {"post_text", "scheduled_date"}],
   [name |-> "publish_twitter_post", required |-> {"post_text"}],
   [name |-> "analyze_linkedin_chat", required |-> {"query"}],
   [name |-> "generate_linkedin_post", required |-> {"content"}],
   [name |-> "get_linkedin_posts", required |-> {}],
   [name |-> "get_linkedin_profile", required |-> {}],
   [name |-> "set_linkedin_url", required |-> {"linkedin_url"}],
   [name |-> "refresh_linkedin_profile", required |-> {}],
   [name |-> "refresh_linkedin_posts", required |-> {}]}

\* the arguments a descriptor requires: the entries of inputSchema.required,
\* none when the schema has no such member
RequiredOf(descriptor) ==
  LET required == descriptor.inputSchema.required
  IN IF required = Undefined THEN {}
     ELSE {required.items[i] : i \in DOMAIN required.items}

\* C12: a well-formed tools/list request is answered with one result holding
\* ten descriptors, one for each tool of the table, each requiring exactly the
\* table's required arguments
C12_ToolDescriptors ==
  \A k \in DOMAIN lines :
    (WellFormed(k) /\ MethodAt(k) = Str("tools/list")) =>
      /\ Cardinality(ResponsesTo(k)) = 1
      /\ \A i \in ResponsesTo(k) :
           LET tools == out[i].line.result.tools
           IN /\ IsResult(i)
              /\ Len(tools) = 10
              /\ {[name |-> tools[n].name, required |-> RequiredOf(tools[n])] :
                     n \in DOMAIN tools} = ToolTable

\* C12 witness: a tools/list request with an id, answered with a result
C12_Witness ==
  \E k \in DOMAIN lines :
    /\ WellFormed(k) /\ MethodAt(k) = Str("tools/list") /\ HasId(k)
    /\ \E i \in ResponsesTo(k) : IsResult(i)

(***************************************************************************)
(* The tool handlers before their HTTP request                              *)
(***************************************************************************)
\* line k is a well-formed tools/call request with a non-null id that names
\* one of these tools
IsCallOf(k, tools) ==
  /\ IsToolsCall(k)
  /\ ParamsAt(k).t = "object"
  /\ Get(ParamsAt(k), "name").t = "string"
  /\ Get(ParamsAt(k), "name").val \in tools

\* the arguments of the tools/call of line k
ArgumentsAt(k) == Get(ParamsAt(k), "arguments")

\* the credential is not set, or set to the empty string
NoCredential == apiKey \in {Undefined, Str("")}

\* line k has exactly one response, the error with this code and the id of
\* line k, and no HTTP request
RejectedWith(k, code) ==
  /\ Cardinality(ResponsesTo(k)) = 1
  /\ \A i \in ResponsesTo(k) : IsError(i, code) /\ EchoesId(i, k)
  /\ CallsOf(k) = {}

\* C13: while the credential is absent or empty, a tools/call of any
\* registered tool is answered with the error -32001 carrying its id, and no
\* HTTP request is issued
C13_NoCredential ==
  \A k \in DOMAIN lines :
    (IsCallOf(k, ToolNames) /\ NoCredential) => RejectedWith(k, -32001)

\* C13 witness: with the credential set to the empty string, a call of
\* refresh_linkedin_posts has been answered
C13_Witness ==
  \E k \in DOMAIN lines :
    /\ IsCallOf(k, {"refresh_linkedin_posts"})
    /\ apiKey = Str("")
    /\ ResponsesTo(k) # {}

\* the tool named by the tools/call of line k
ToolAt(k) == Get(ParamsAt(k), "name").val

\* the required arguments of a tool, by the table
RequiredArguments(tool) == (CHOOSE row \in ToolTable : row.name = tool).required

\* v is no string, or a string that is empty after trimming
Blank(v) == v.t # "string" \/ v.val \in {"", " ", "  "}

IntegerInRange(v) == v.t = "number" /\ ~v.half /\ v.int \in 1..20

\* line k has issued exactly one HTTP request and its body has this member
\* with this value
Forwards(k, member, value) ==
  /\ Cardinality(CallsOf(k)) = 1
  /\ \A c \in CallsOf(k) : calls[c].call.payload[member] = value

\* C15: with the credential set, a call of get_linkedin_posts sends limit 5
\* when limit is absent (missing or null), sends a supplied integer from 1 to 20 unchanged, and
\* is rejected with -32602 before any HTTP request for every other supplied
\* value; the limit sent is always an integer from 1 to 20
C15_LimitRange ==
  \A k \in DOMAIN lines :
    (IsCallOf(k, {"get_linkedin_posts"}) /\ ~NoCredential) =>
      LET limit == Get(ArgumentsAt(k), "limit")
      IN /\ \A c \in CallsOf(k) : IntegerInRange(calls[c].call.payload.limit)
         /\ CASE limit \in {Undefined, Null} -> Forwards(k, "limit", Num(5))
              [] IntegerInRange(limit) -> Forwards(k, "limit", limit)
              [] OTHER -> RejectedWith(k, -32602)

\* the strings of the form YYYY-MM-DDTHH:MM:SS, an optional fraction of a
\* second, and Z or an offset +HH:MM or -HH:MM, among the dates tried
WellFormedDates ==
  {"2025-12-31T10:00:00Z", "2020-01-01T00:00:00.5+02:00", "1999-12-31T23:59:59-05:30"}

\* media is an array whose every entry is an object with a string file_url
\* and a string filename
WellFormedMedia(media) ==
  /\ media.t = "array"
  /\ \A i \in DOMAIN media.items :
       /\ media.items[i].t = "object"
       /\ Get(media.items[i], "file_url").t = "string"
       /\ Get(media.items[i], "filename").t = "string"

C17_Media ==
  \A k \in DOMAIN lines :
    LET args == ArgumentsAt(k)
        media == Get(args, "media")
    IN ( /\ IsCallOf(k, {"publish_linkedin_post", "schedule_linkedin_post"})
         /\ ~NoCredential
         /\ ~Blank(Get(args, "post_text"))
         /\ ToolAt(k) = "schedule_linkedin_post" =>
              /\ Get(args, "scheduled_date").t = "string"
              /\ Get(args, "scheduled_date").val \in WellFormedDates )
       => CASE media \in {Undefined, Null} -> Forwards(k, "media", Arr(<<>>))
            [] WellFormedMedia(media) -> Forwards(k, "media", media)
            [] OTHER -> RejectedWith(k, -32602)

\* the arguments the tool schemas declare, each with its declared type
DeclaredTypes ==
  {[tool |-> "publish_linkedin_post", argument |-> "post_text", type |-> "string"],
   [tool |-> "publish_linkedin_post", argument |-> "media", type |-> "media"],
   [tool |-> "schedule_linkedin_post", argument |-> "post_text", type |-> "string"],
   [tool |-> "schedule_linkedin_post", argument |-> "scheduled_date", type |-> "string"],
   [tool |-> "schedule_linkedin_post", argument |-> "media", type |-> "media"],
   [tool |-> "publish_twitter_post", argument |-> "post_text", type |-> "string"],
   [tool |-> "analyze_linkedin_chat", argument |-> "query", type |-> "string"],
   [tool |-> "analyze_linkedin_chat", argument |-> "conversation_history", type |-> "messages"],
   [tool |-> "generate_linkedin_post", argument |-> "content", type |-> "string"],
   [tool |-> "generate_linkedin_post", argument |-> "content_type", type |-> "string"],
   [tool |-> "get_linkedin_posts", argument |-> "limit", type |-> "number"],
   [tool |-> "set_linkedin_url", argument |-> "linkedin_url", type |-> "string"]}

\* v is an array whose every entry is an object with string role and content
WellFormedMessages(v) ==
  /\ v.t = "array"
  /\ \A i \in DOMAIN v.items :
       /\ v.items[i].t = "object"
       /\ Get(v.items[i], "role").t = "string"
       /\ Get(v.items[i], "content").t = "string"

\* v is of the declared type
HasType(v, type) ==
  CASE type = "media" -> WellFormedMedia(v)
    [] type = "messages" -> WellFormedMessages(v)
    [] OTHER -> v.t = type

\* C18: with the credential set, a tools/call that supplies (as a member that
\* is not null) a value of another type than the one the tool's schema
\* declares for that argument is rejected with -32602 before any HTTP request
C18_DeclaredTypes ==
  \A k \in DOMAIN lines :
    ( /\ IsCallOf(k, ToolNames)
      /\ ~NoCredential
      /\ \E d \in DeclaredTypes :
           /\ d.tool = ToolAt(k)
           /\ Get(ArgumentsAt(k), d.argument) \notin {Undefined, Null}
           /\ ~HasType(Get(ArgumentsAt(k), d.argument), d.type) )
    => RejectedWith(k, -32602)

(***************************************************************************)
(* The HTTP request of a tool call                                          *)
(***************************************************************************)
\* the endpoint of each tool
EndpointOf(tool) ==
  CASE tool = "publish_linkedin_post" -> "https://ligo.ertiqah.com/api/mcp/publish-linkedin-post"
    [] tool = "schedule_linkedin_post" -> "https://ligo.ertiqah.com/api/mcp/schedule-linkedin-post"
    [] tool = "publish_twitter_post" -> "https://ligo.ertiqah.com/api/mcp/publish-twitter-post"
    [] tool = "analyze_linkedin_chat" -> "https://ligo.ertiqah.com/api/mcp/analyze-linkedin-chat"
    [] tool = "generate_linkedin_post" -> "https://ligo.ertiqah.com/api/mcp/generate-linkedin-post"
    [] tool = "get_linkedin_posts" -> "https://ligo.ertiqah.com/api/mcp/linkedin/posts"
    [] tool = "get_linkedin_profile" -> "https://ligo.ertiqah.com/api/mcp/linkedin/profile"
    [] tool = "set_linkedin_url" -> "https://ligo.ertiqah.com/api/mcp/linkedin/set-url"
    [] tool = "refresh_linkedin_profile" -> "https://ligo.ertiqah.com/api/mcp/linkedin/refresh-profile"
    [] tool = "refresh_linkedin_posts" -> "https://ligo.ertiqah.com/api/mcp/linkedin/refresh-posts"

\* line k was turned down by the credential check or the argument validation
TurnedDown(k) ==
  \E i \in ResponsesTo(k) : IsError(i, -32001) \/ IsError(i, -32602)

\* the backend call of line k has settled and the answer reports a failure
FailedCall(k) ==
  /\ ~InFlight(k)
  /\ \E i \in ResponsesTo(k) : IsResult(i) /\ out[i].line.result.isError

\* C19: a tools/call of a registered tool that is not turned down by the
\* credential check or the validation has issued exactly one HTTP request, to
\* the endpoint of its tool and with the bearer credential, while the call is
\* in flight and after it has settled, whatever the outcome; a call that is
\* turned down has issued none
C19_OnePost ==
  \A k \in DOMAIN lines :
    IsCallOf(k, ToolNames) =>
      IF TurnedDown(k)
        THEN CallsOf(k) = {}
        ELSE /\ Cardinality(CallsOf(k)) = 1
             /\ \A c \in CallsOf(k) :
                  /\ calls[c].call.url = EndpointOf(ToolAt(k))
                  /\ calls[c].call.authorization = <<"Bearer ", apiKey.val>>

\* C19 witness: a backend call has failed and been answered, and its line has
\* issued one HTTP request
C19_Witness ==
  \E k \in DOMAIN lines :
    /\ IsCallOf(k, ToolNames)
    /\ FailedCall(k)
    /\ Cardinality(CallsOf(k)) = 1

\* v, or d where the argument is absent
Defaulted(v, d) == IF v = Undefined THEN d ELSE v

\* the body of the HTTP request of a tool for these arguments, contentType being
\* what the body holds for content_type
ExpectedBody(tool, args, contentType) ==
  CASE tool = "publish_linkedin_post" ->
         [post_text |-> Get(args, "post_text"),
          media |-> Defaulted(Get(args, "media"), Arr(<<>>))]
    [] tool = "schedule_linkedin_post" ->
         [post_text |-> Get(args, "post_text"),
          scheduled_date |-> Get(args, "scheduled_date"),
          media |-> Defaulted(Get(args, "media"), Arr(<<>>))]
    [] tool = "publish_twitter_post" -> [post_text |-> Get(args, "post_text")]
    [] tool = "analyze_linkedin_chat" ->
         [query |-> Get(args, "query"),
          conversation_history |-> Defaulted(Get(args, "conversation_history"), Arr(<<>>))]
    [] tool = "generate_linkedin_post" ->
         [content |-> Get(args, "content"), contentType |-> contentType]
    [] tool = "get_linkedin_posts" -> [limit |-> Defaulted(Get(args, "limit"), Num(5))]
    [] tool = "set_linkedin_url" -> [linkedin_url |-> Get(args, "linkedin_url")]
    [] OTHER -> EmptyObject

\* the credential is set, the required arguments of line k are in order and
\* each optional argument is absent or a valid value
ValidCall(k) ==
  LET args == ArgumentsAt(k)
      optional(a) == Get(args, a) = Undefined
  IN /\ IsCallOf(k, ToolNames)
     /\ ~NoCredential
     /\ \A a \in RequiredArguments(ToolAt(k)) : ~Blank(Get(args, a))
     /\ ToolAt(k) = "schedule_linkedin_post" =>
          Get(args, "scheduled_date").val \in WellFormedDates
     /\ optional("media") \/ WellFormedMedia(Get(args, "media"))
     /\ optional("conversation_history")
          \/ WellFormedMessages(Get(args, "conversation_history"))
     /\ optional("content_type") \/ Get(args, "content_type").t = "string"
     /\ optional("limit") \/ IntegerInRange(Get(args, "limit"))

\* line k has issued exactly one HTTP request, with this body
Sends(k, body) ==
  /\ Cardinality(CallsOf(k)) = 1
  /\ \A c \in CallsOf(k) : calls[c].call.payload = body

\* C20 as stated: the body of the request of a valid call holds the arguments,
\* with an empty list for an absent media, 5 for an absent limit, "article"
\* for an absent content_type, and every supplied valid optional value as it is
C20_PayloadDefaults_AsStated ==
  \A k \in DOMAIN lines :
    ValidCall(k) =>
      Sends(k, ExpectedBody(ToolAt(k), ArgumentsAt(k),
                            Defaulted(Get(ArgumentsAt(k), "content_type"), Str("article"))))

\* C20: the body of the request of a valid call holds the arguments, with an
\* empty list for an absent media, 5 for an absent limit, "article" for a
\* content_type that is absent or the empty string, and every other supplied
\* valid optional value as it is
C20_PayloadDefaults ==
  \A k \in DOMAIN lines :
    ValidCall(k) =>
      LET contentType == Get(ArgumentsAt(k), "content_type")
      IN Sends(k, ExpectedBody(ToolAt(k), ArgumentsAt(k),
                               IF contentType \in {Undefined, Str("")}
                                 THEN Str("article") ELSE contentType))

\* C20 witness: a call of generate_linkedin_post without content_type has
\* issued its request with "article"
C20_Witness ==
  \E k \in DOMAIN lines :
    /\ ValidCall(k)
    /\ ToolAt(k) = "generate_linkedin_post"
    /\ Get(ArgumentsAt(k), "content_type") = Undefined
    /\ \E c \in CallsOf(k) : calls[c].call.payload.contentType = Str("article")

(***************************************************************************)
(* The answer to a tool call once the backend has answered                  *)
(***************************************************************************)
\* the backend call of line k has settled
Settled(k) == \E s \in settled : s.src = k

\* how the backend call of line k ended
OutcomeOf(k) == (CHOOSE s \in settled : s.src = k).outcome

\* the member of a 2xx body that tells a tool its call succeeded
Indicator(tool) == IF tool = "analyze_linkedin_chat" THEN "reply" ELSE "success"

\* the body of a 2xx answer flags success for this tool
FlagsSuccess(tool, data) == data.t = "object" /\ Truthy(Get(data, Indicator(tool)))

\* output line i is a result with a non-empty content and this isError
IsToolResult(i, isError) ==
  /\ IsResult(i)
  /\ Len(out[i].line.result.content) > 0
  /\ out[i].line.result.isError = isError

Identifiers ==
  {[tool |-> "publish_linkedin_post", member |-> "post_urn", label |-> " (Post ID: "],
   [tool |-> "schedule_linkedin_post", member |-> "scheduled_job_id",
    label |-> " (Scheduled Job ID: "],
   [tool |-> "publish_twitter_post", member |-> "tweet_id", label |-> " (Tweet ID: "]}

\* the text of the first content entry of output line i
TextOf(i) == out[i].line.result.content[1].text

\* the identifier rule for the answer to line k: the confirmation ends with
\* the identifier between its label and a closing bracket when the body
\* carries one, and has no such suffix when it carries none
IdentifierAppended(k) ==
  \A d \in Identifiers :
    d.tool = ToolAt(k) =>
      LET identifier == Get(OutcomeOf(k).data, d.member)
      IN \A i \in ResponsesTo(k) :
           SubSeq(TextOf(i), 3, Len(TextOf(i))) =
             IF identifier.t = "string"
               THEN <<d.label, identifier.val, ")", ".">>
               ELSE <<".">>

\* the backend call of line k got a 2xx answer
Answered2xx(k) == IsCallOf(k, ToolNames) /\ Settled(k) /\ OutcomeOf(k).kind = "resolved"

Renderable(tool, data) ==
  LET posts == Get(data, "posts")
      listed(member) == Get(Get(data, "profile"), member)
      sound(list) == list.t = "array" => \A n \in DOMAIN list.items : list.items[n] # Null
  IN CASE tool = "get_linkedin_posts" -> ~Truthy(posts) \/ posts.t = "array"
       [] tool = "get_linkedin_profile" -> sound(listed("experience")) /\ sound(listed("education"))
       [] OTHER -> TRUE

NotFoundMessages ==
  {"LinkedIn posts not found. Make sure you've set your LinkedIn URL using set_linkedin_url tool and that the profile is publicly accessible.",
   "LinkedIn profile not found. Make sure you've set your LinkedIn URL using set_linkedin_url tool and that the profile is publicly accessible."}

\* text has this fragment
HasFragment(text, fragment) == \E n \in DOMAIN text : text[n] = fragment

\* C23: for every tool, a non-2xx answer gives one result with isError true
\* whose text reports an authentication error for 401 and 403, a resource not
\* found with the remedy for 404, and holds the status code for any other
\* status
C23_StatusMessages ==
  \A k \in DOMAIN lines :
    (IsCallOf(k, ToolNames) /\ Settled(k) /\ OutcomeOf(k).kind = "response") =>
      /\ Cardinality(ResponsesTo(k)) = 1
      /\ \A i \in ResponsesTo(k) :
           /\ IsToolResult(i, TRUE)
           /\ CASE OutcomeOf(k).status \in {401, 403} ->
                     HasFragment(TextOf(i),
                       "Authentication error. Your API key may be invalid or expired.")
                [] OutcomeOf(k).status = 404 ->
                     \E m \in NotFoundMessages : HasFragment(TextOf(i), m)
                [] OTHER -> HasFragment(TextOf(i), ToString(OutcomeOf(k).status))

\* the texts that report that the backend could not be reached
NoResponseMessages ==
  {"No response received from backend API.",
   "No response received from backend schedule API.",
   "No response received from Twitter API.",
   "No response received from analyze chat API.",
   "No response received from generate post API.",
   "No response received from LinkedIn posts API. The server may be unavailable or experiencing issues.",
   "No response received from LinkedIn profile API. The server may be unavailable or experiencing issues.",
   "No response received from set LinkedIn URL API. The server may be unavailable or experiencing issues.",
   "No response received from refresh LinkedIn profile API.",
   "No response received from refresh LinkedIn posts API."}

\* the backend call of line k timed out or got no answer
Unanswered(k) == IsCallOf(k, ToolNames) /\ Settled(k) /\ OutcomeOf(k).kind = "request"

\* a call that got no answer has one response, a result with isError true, a
\* text that reports the failed connection and the id of its request; and
\* every other line that is not in flight has its response too
UnansweredIsReported ==
  \A k \in DOMAIN lines :
    Unanswered(k) =>
      /\ Cardinality(ResponsesTo(k)) = 1
      /\ \A i \in ResponsesTo(k) :
           /\ IsToolResult(i, TRUE)
           /\ \E m \in NoResponseMessages : HasFragment(TextOf(i), m)
           /\ EchoesId(i, k)
      /\ \A j \in DOMAIN lines : (j # k /\ ~InFlight(j)) => ResponsesTo(j) # {}

\* C24: a backend call that times out or gets no answer is answered with one
\* result with isError true, a connectivity-failure text and the id of its
\* request; the step that settles a backend call leaves the process serving,
\* and the lines read after it are answered
C24_TimeoutAnswered ==
  /\ []UnansweredIsReported
  /\ [][settled' # settled => phase' = "serving"]_vars

\* C24 witness: a call got no answer and was answered, and a line read after
\* that answer has been answered in its turn
C24_Witness ==
  \E k, j \in DOMAIN lines :
    /\ Unanswered(k)
    /\ k < j
    /\ \E i \in ResponsesTo(k), n \in ResponsesTo(j) : i < n
    /\ phase = "serving"

\* the session is initialize, tools/list and a call of a tool with valid
\* arguments, each request with an id of its own
RoundTrip ==
  /\ Len(lines) = 3
  /\ \A k \in 1..3 : WellFormed(k) /\ HasId(k)
  /\ MethodAt(1) = Str("initialize")
  /\ MethodAt(2) = Str("tools/list")
  /\ IsCallOf(3, ToolNames)
  /\ ArgumentsAt(3) = GoodArguments(ToolAt(3))
  /\ Cardinality({IdAt(k) : k \in 1..3}) = 3

\* C25: initialize, tools/list and a valid tools/call, whenever the backend
\* answers, produce three response lines, one for each request and with its
\* id; as long as the call is in flight the first two are there and no more
C25_RoundTrip ==
  RoundTrip =>
    /\ \A k \in 1..3 :
         ~InFlight(k) =>
           /\ Cardinality(ResponsesTo(k)) = 1
           /\ \A i \in ResponsesTo(k) : EchoesId(i, k)
    /\ InFlight(3) => ResponsesTo(3) = {}
    /\ Len(out) = Cardinality({k \in 1..3 : ~InFlight(k)})

\* C25 witness: the three requests were read before the backend answered, the
\* backend has answered, and the three responses are out
C25_Witness ==
  /\ RoundTrip
  /\ Settled(3)
  /\ Len(out) = 3
  /\ {out[i].line.id : i \in DOMAIN out} = {IdAt(k) : k \in 1..3}

\* the response to line k is what the handler of line k makes of the outcome
\* of its own backend call
OwnOutcome(k) ==
  \A i \in ResponsesTo(k), c \in CallsOf(k) :
    out[i].line = JSONstringify(resume(calls[c].call, OutcomeOf(k)))

\* C26: of two tools/call requests whose backend calls have both completed, in
\* whichever order, each has exactly one response, with the id of its own
\* request and the outcome of its own backend call
C26_OwnIdOwnOutcome ==
  \A k, j \in DOMAIN lines :
    (k < j /\ IsCallOf(k, ToolNames) /\ IsCallOf(j, ToolNames)
       /\ Settled(k) /\ Settled(j)) =>
      \A n \in {k, j} :
        /\ Cardinality(ResponsesTo(n)) = 1
        /\ \A i \in ResponsesTo(n) : EchoesId(i, n)
        /\ OwnOutcome(n)

\* C26 witness: two calls with different ids and different tools; the backend
\* answered the second before the first, with different outcomes, and the
\* response to the second is written before the response to the first
C26_Witness ==
  \E k, j \in DOMAIN lines :
    /\ k < j
    /\ IsCallOf(k, ToolNames) /\ IsCallOf(j, ToolNames)
    /\ Settled(k) /\ Settled(j)
    /\ IdAt(k) # IdAt(j)
    /\ OutcomeOf(k) # OutcomeOf(j)
    /\ \E i \in ResponsesTo(k), n \in ResponsesTo(j) : n < i

\* line j, once no handler of it is suspended, has the responses that the
\* listener and the handler make of it: the ones sent before any await, and
\* one for its backend call, made of the outcome of that call
AnsweredAsUsual(j) ==
  LET parsed == JSONparse(lines[j])
      h == handleRequest(parsed.value, apiKey)
      sync == IF parsed.threw THEN <<ParseErrorResponse>> ELSE h.sent
      posts == IF parsed.threw THEN 0 ELSE Len(h.post)
  IN ~InFlight(j) =>
       /\ Cardinality(ResponsesTo(j)) = Len(sync) + posts
       /\ \A n \in DOMAIN sync :
            \E i \in ResponsesTo(j) : out[i].line = JSONstringify(sync[n])
       /\ Settled(j) => OwnOutcome(j)

\* the calls in flight at a SIGTERM are answered or still in flight, and the
\* lines read after it are answered as usual
SigtermHarmless ==
  \A s \in DOMAIN signals :
    /\ \A p \in signals[s].pending : InFlight(p.src) \/ ResponsesTo(p.src) # {}
    /\ \A p \in signals[s].pending : AnsweredAsUsual(p.src)
    /\ \A j \in DOMAIN lines : j > signals[s].lines => AnsweredAsUsual(j)

\* C27: SIGTERM changes nothing of a serving process: it stays serving, the
\* calls in flight stay in flight and are answered when the backend answers,
\* the input stays open, and the lines read after the signal are answered as
\* they are without it; this holds for every signal received
C27_SigtermIgnored ==
  /\ []SigtermHarmless
  /\ [][signals' # signals =>
          /\ phase = "serving" /\ phase' = "serving"
          /\ pending' = pending /\ out' = out
          /\ lines' = lines /\ stdin' = stdin]_vars

\* C27 witness: two SIGTERMs arrived, one of them with a call in flight; the
\* call has been answered since, and so has a line read after the signal
C27_Witness ==
  \E s \in DOMAIN signals :
    /\ Len(signals) >= 2
    /\ signals[s].pending # {}
    /\ \A p \in signals[s].pending : ResponsesTo(p.src) # {}
    /\ \E j \in DOMAIN lines : j > signals[s].lines /\ ResponsesTo(j) # {}
    /\ phase = "serving"

\* C28: in every serving state, with or without backend calls in flight, a
\* SIGINT is taken; the step that takes it ends the process at once, writing
\* nothing and waiting for no call; and nothing happens after the exit: no
\* line is read, no call is answered, no response is written
C28_SigintExits ==
  /\ [](phase = "serving" => ENABLED Sigint)
  /\ [][Sigint => (phase' = "exited" /\ out' = out /\ pending' = pending)]_vars
  /\ [][phase = "serving"]_vars

\* C28 witness: the process exited on SIGINT with a backend call in flight,
\* and the call has no response
C28_Witness ==
  /\ phase = "exited"
  /\ pending # {}
  /\ \A p \in pending : ResponsesTo(p.src) = {}

\* C29: the step that closes the input leaves the process serving and its
\* calls in flight; with the input closed the process, which the interval of
\* main keeps resident, still answers the calls in flight, takes a SIGINT, and
\* leaves serving by a SIGINT only
C29_CloseKeepsServing ==
  /\ [][stdin' # stdin =>
          /\ phase = "serving" /\ phase' = "serving"
          /\ pending' = pending /\ out' = out]_vars
  /\ []((stdin = "closed" /\ phase = "serving") =>
          /\ ENABLED Sigint
          /\ pending # {} => ENABLED BackendAnswers)
  /\ [][(stdin = "closed" /\ phase' # phase) => Sigint]_vars

\* C29 witness: the input is closed, the process is serving, and a backend
\* call of a line read before the close has been answered
C29_Witness ==
  /\ stdin = "closed"
  /\ phase = "serving"
  /\ \E k \in DOMAIN lines : Settled(k) /\ ResponsesTo(k) # {}

\* C30: a serving process leaves serving by a SIGINT and by nothing else,
\* whatever it has read and whatever the backend has answered; as long as it
\* serves with its input open it reads the next line, and every line it has
\* read is answered as usual, whatever came before it
C30_OnlySigintTerminates ==
  /\ [][phase' # phase => Sigint]_vars
  /\ []((phase = "serving" /\ stdin = "open" /\ Len(lines) < MaxLife) =>
          \A l \in LifeLines : ENABLED Line(l))
  /\ [](\A j \in DOMAIN lines : AnsweredAsUsual(j))

\* C30 witness: a line that is not JSON, then a tool call that the backend
\* failed; both are answered and the process is serving
C30_Witness ==
  \E k, j \in DOMAIN lines :
    /\ k < j
    /\ ~Decoded(k) /\ ResponsesTo(k) # {}
    /\ Settled(j) /\ OutcomeOf(j).kind # "resolved" /\ ResponsesTo(j) # {}
    /\ phase = "serving"

\* output write i is one complete response envelope and one line: the tag,
\* one of result and error, and no line feed but the last
OneEnvelopeOneLine(i) ==
  /\ "jsonrpc" \in out[i].line.members
  /\ ("result" \in out[i].line.members) # ("error" \in out[i].line.members)
  /\ out[i].feeds = 1

\* C31: every write to stdout is one complete response envelope on one line,
\* made by one sendResponse of the handler of one input line; the writes are
\* as many as the responses due, so that nothing else is between them, also
\* when the calls of several requests complete one after the other in any order
C31_OnlyResponseLines ==
  /\ \A i \in DOMAIN out : OneEnvelopeOneLine(i) /\ out[i].src \in DOMAIN lines
  /\ Len(out) = Cardinality({k \in DOMAIN lines : ResponsesTo(k) # {}})
  /\ \A k \in DOMAIN lines : AnsweredAsUsual(k)

\* C31 witness: two calls were in flight together, the second was answered
\* first, and three or more response lines are out
C31_Witness ==
  /\ Len(out) >= 3
  /\ \E k, j \in DOMAIN lines :
       /\ k < j /\ Settled(k) /\ Settled(j)
       /\ \E i \in ResponsesTo(k), n \in ResponsesTo(j) : n < i

\* the response lines written for input line k
ResponseLines(k) == {out[i].line : i \in ResponsesTo(k)}

\* lines k and j hold the same request, no handler of them is suspended, and
\* their backend calls, if they made any, came to the same outcome
SameRequestSameOutcome(k, j) ==
  /\ lines[k] = lines[j]
  /\ ~InFlight(k) /\ ~InFlight(j)
  /\ Settled(k) <=> Settled(j)
  /\ Settled(k) => OutcomeOf(k) = OutcomeOf(j)

\* two equal requests with equal backend outcomes have equal responses,
\* wherever they stand in the session
SameResponse ==
  \A k, j \in DOMAIN lines : SameRequestSameOutcome(k, j) => ResponseLines(k) = ResponseLines(j)

\* tools/list is answered with the catalog and a tools/call is handed to its
\* tool, whether or not an initialize request was read before
ServedUninitialized ==
  \A k \in DOMAIN lines :
    /\ (WellFormed(k) /\ MethodAt(k) = Str("tools/list")) =>
         \A i \in ResponsesTo(k) : out[i].line.result = ToolsListResult
    /\ (IsCallOf(k, ToolNames) /\ ~InFlight(k)) =>
         \A i \in ResponsesTo(k) :
           IsError(i, -32001) \/ IsError(i, -32602) \/ IsToolResult(i, TRUE) \/ IsToolResult(i, FALSE)

\* C32: the response to a request is fixed by the request, the credential and
\* the outcome of its own backend call: two equal requests with equal outcomes
\* get equal responses whatever was read before them or is in flight beside
\* them; tools/list and tools/call need no initialize before them; and no step
\* changes the credential
C32_NoCrossRequestState ==
  /\ [](SameResponse /\ ServedUninitialized)
  /\ [](\A k \in DOMAIN lines : AnsweredAsUsual(k) /\ (Settled(k) => OwnOutcome(k)))
  /\ [][apiKey' = apiKey]_vars

\* C32 witness: a session without initialize in which the same request was
\* read twice, a tools/call was read before the second of them and answered
\* after it, and the two have the same response
C32_Witness ==
  /\ \A n \in DOMAIN lines : ~(WellFormed(n) /\ MethodAt(n) = Str("initialize"))
  /\ \E k, m, j \in DOMAIN lines :
       /\ k < j /\ m < j
       /\ SameRequestSameOutcome(k, j)
       /\ ResponseLines(k) # {} /\ ResponseLines(k) = ResponseLines(j)
       /\ IsCallOf(m, ToolNames)
       /\ \E i \in ResponsesTo(j), n \in ResponsesTo(m) : i < n

\* every valid call read so far has issued its one HTTP request, and the calls
\* in flight are the valid calls that the backend has not answered
IssuedAtOnce ==
  /\ \A k \in DOMAIN lines : ValidCall(k) => Cardinality(CallsOf(k)) = 1
  /\ {p.src : p \in pending} = {k \in DOMAIN lines : ValidCall(k) /\ ~Settled(k)}
  /\ Cardinality(pending) = Cardinality({k \in DOMAIN lines : ValidCall(k) /\ ~Settled(k)})

\* C33: the HTTP request of a valid tools/call is issued in the step that
\* reads its line, whatever calls are in flight, and the calls in flight are
\* as many as the valid calls not answered yet: the next line is read with
\* any number of calls in flight
C33_NoWaitNoCap ==
  /\ []IssuedAtOnce
  /\ []((phase = "serving" /\ stdin = "open" /\ Len(lines) < MaxSession) =>
          \A l \in SessionLines : ENABLED Line(l))
  /\ [][(lines' # lines /\ (ValidCall(Len(lines)))') =>
          (Cardinality(pending') = Cardinality(pending) + 1 /\ out' = out)]_vars

\* C33 witness: as many valid calls as the session has lines were read before
\* the backend answered any, and all of them are in flight together
C33_Witness ==
  /\ Len(lines) = MaxSession
  /\ \A k \in DOMAIN lines : ValidCall(k)
  /\ settled = {}
  /\ Cardinality(pending) = MaxSession
  /\ Len(calls) = MaxSession

\* the tools/call of line k lacks a required argument of its tool
LacksRequired(k) ==
  \E a \in RequiredArguments(ToolAt(k)) : Blank(Get(ArgumentsAt(k), a))

\* C34: a tools/call of a registered tool made without the credential has
\* one response, the error -32001, whatever its arguments are; and a call of
\* a registered tool answered with -32602 was made with the credential
C34_CredentialFirst ==
  \A k \in DOMAIN lines :
    IsCallOf(k, ToolNames) =>
      /\ NoCredential =>
           /\ RejectedWith(k, -32001)
           /\ \A i \in ResponsesTo(k) : ~IsError(i, -32602)
      /\ (\E i \in ResponsesTo(k) : IsError(i, -32602)) => ~NoCredential

\* C34 witness: without the credential, a call that lacks a required argument
\* is answered with -32001
C34_Witness ==
  \E k \in DOMAIN lines :
    /\ IsCallOf(k, ToolNames)
    /\ NoCredential
    /\ LacksRequired(k)
    /\ RejectedWith(k, -32001)

\* a response written after the response to a later line belongs to a line
\* that issued an HTTP request, and is the result made of the outcome
Overtaken ==
  \A k, j \in DOMAIN lines :
    \A i \in ResponsesTo(k), n \in ResponsesTo(j) :
      (k < j /\ n < i) => (CallsOf(k) # {} /\ Settled(k) /\ IsResult(i))

\* a line that issued no HTTP request has its responses in the state that its
\* reading leads to, and so before the next line is read
WrittenAtOnce ==
  \A k \in DOMAIN lines : CallsOf(k) = {} => (~InFlight(k) /\ AnsweredAsUsual(k))

\* C35: the responses that need no backend call are written in the step that
\* reads their line, and so in the order of their requests; a response that
\* comes after the response to a later line is that of a tools/call that
\* issued an HTTP request
C35_OnlyBackendCallsOvertaken ==
  /\ Overtaken
  /\ WrittenAtOnce
  /\ \A k, j \in DOMAIN lines :
       (k < j /\ CallsOf(k) = {} /\ CallsOf(j) = {}) =>
         \A i \in ResponsesTo(k), n \in ResponsesTo(j) : i < n

\* C35 witness: a tools/call that issued its HTTP request, then two requests
\* that need no backend call; these two are answered in their order, and the
\* call after them
C35_Witness ==
  \E k, j, m \in DOMAIN lines :
    /\ k < j /\ j < m
    /\ CallsOf(k) # {} /\ CallsOf(j) = {} /\ CallsOf(m) = {}
    /\ \E a \in ResponsesTo(k), b \in ResponsesTo(j), c \in ResponsesTo(m) : b < c /\ c < a

\* C36: no input line has more than one response line, and no response line
\* is the internal error -32000 of the listener
C36_AtMostOneResponse ==
  /\ \A k \in DOMAIN lines : Cardinality(ResponsesTo(k)) <= 1
  /\ \A i \in DOMAIN out : ~IsError(i, -32000)

\* C36 witness: the backend answered a call with a body that its tool cannot
\* render; the exception was caught in the handler, and the call has one
\* response, a result with isError true
C36_Witness ==
  \E k \in DOMAIN lines :
    /\ IsCallOf(k, ToolNames)
    /\ Settled(k)
    /\ OutcomeOf(k).kind = "resolved"
    /\ ~Renderable(ToolAt(k), OutcomeOf(k).data)
    /\ Cardinality(ResponsesTo(k)) = 1
    /\ \A i \in ResponsesTo(k) : IsToolResult(i, TRUE)

\* the names of the catalog that tools/list returns
Advertised ==
  {ToolsListResult.tools[n].name : n \in DOMAIN ToolsListResult.tools}

\* the names in the tools/list result of output line i
AdvertisedIn(i) ==
  {out[i].line.result.tools[n].name : n \in DOMAIN out[i].line.result.tools}

\* line k is a tools/call with the tag "2.0" and an object for params
IsRoutedCall(k) == IsToolsCall(k) /\ ParamsAt(k).t = "object"

\* the name of the tools/call of line k is a string of this set
Names(k, names) ==
  Get(ParamsAt(k), "name").t = "string" /\ Get(ParamsAt(k), "name").val \in names

\* C37: every tools/list result advertises the same names; a tools/call of an
\* advertised name is never answered with Tool not found; a tools/call of any
\* other name issues no HTTP request and is answered with Tool not found; and
\* every HTTP request issued is that of an advertised tool
C37_AdvertisedIsRouted ==
  /\ \A k \in DOMAIN lines :
       (WellFormed(k) /\ MethodAt(k) = Str("tools/list")) =>
         \A i \in ResponsesTo(k) : AdvertisedIn(i) = Advertised
  /\ \A k \in DOMAIN lines :
       IsRoutedCall(k) =>
         IF Names(k, Advertised)
           THEN \A i \in ResponsesTo(k) : ~IsError(i, -32601)
           ELSE /\ CallsOf(k) = {}
                /\ ResponsesTo(k) # {}
                /\ \A i \in ResponsesTo(k) : IsError(i, -32601)
  /\ \A c \in DOMAIN calls : calls[c].call.tool \in Advertised

\* C37 witness: tools/list was answered, and a call of a name taken from its
\* answer has issued its HTTP request
C37_Witness ==
  \E k, j \in DOMAIN lines :
    /\ WellFormed(k) /\ MethodAt(k) = Str("tools/list")
    /\ IsRoutedCall(j)
    /\ \E i \in ResponsesTo(k) : Names(j, AdvertisedIn(i))
    /\ CallsOf(j) # {}

\* output line i has the tag "2.0" and one of result and error
TaggedOneOf(i) ==
  /\ "jsonrpc" \in out[i].line.members
  /\ out[i].line.jsonrpc = Str("2.0")
  /\ ("result" \in out[i].line.members) # ("error" \in out[i].line.members)

\* the error of output line i has an integer code and a message made of text
WellFormedError(i) ==
  /\ out[i].line.error.code \in Int
  /\ \A n \in DOMAIN out[i].line.error.message : out[i].line.error.message[n] \in STRING

\* the result of output line i has a non-empty content whose items have the
\* type "text" and a string for text, and a boolean isError
WellFormedToolResult(i) ==
  /\ Len(out[i].line.result.content) > 0
  /\ \A n \in DOMAIN out[i].line.result.content :
       /\ out[i].line.result.content[n].type = "text"
       /\ out[i].line.result.content[n].json = "string"
  /\ out[i].line.result.isError \in BOOLEAN

\* C38: every response has the tag "2.0" and exactly one of result and error;
\* an error has an integer code and a string message; the result sent after
\* a backend call has a non-empty content of text items, each with a string
\* text, and a boolean isError
C38_EnvelopeShape ==
  \A i \in DOMAIN out :
    /\ TaggedOneOf(i)
    /\ "error" \in out[i].line.members => WellFormedError(i)
    /\ ("result" \in out[i].line.members /\ Settled(out[i].src)) => WellFormedToolResult(i)

\* the backend call of line k settled after the input was closed
SettledAfterClose(k) == \E s \in settled : s.src = k /\ s.stdin = "closed"

\* with the input closed, every call that issued its HTTP request is in
\* flight or has its one response, made of its own outcome
ClosedAndAnswered ==
  stdin = "closed" =>
    \A k \in DOMAIN lines :
      CallsOf(k) # {} =>
        \/ InFlight(k)
        \/ /\ Settled(k)
           /\ Cardinality(ResponsesTo(k)) = 1
           /\ \A i \in ResponsesTo(k) : EchoesId(i, k)
           /\ OwnOutcome(k)

\* C39: closing the input abandons no call in flight; as long as no SIGINT
\* has arrived, each call in flight can settle with any outcome, a timeout
\* among them, and the step that settles it writes its response
C39_AnsweredAfterClose ==
  /\ []ClosedAndAnswered
  /\ []((stdin = "closed" /\ phase = "serving") =>
          \A p \in pending : \A o \in Outcomes : ENABLED Settle(p, o))
  /\ [][(stdin = "closed" /\ pending' # pending) =>
          (Len(out') = Len(out) + 1 /\ phase' = "serving")]_vars

\* C39 witness: a call was in flight when the input closed; after the close
\* it timed out, and its response is out
C39_Witness ==
  \E k \in DOMAIN lines :
    /\ SettledAfterClose(k)
    /\ OutcomeOf(k).kind = "request"
    /\ Cardinality(ResponsesTo(k)) = 1
    /\ \A i \in ResponsesTo(k) : IsToolResult(i, TRUE) /\ EchoesId(i, k)

====
